---- MODULE Spec2Model ----
(***************************************************************************)
(* The snapshot-versioned catalog of ducklake-core: the catalog store     *)
(* (one sequence of rows per relational table, in insertion order), the   *)
(* three write operations of DuckLake (create_schema, create_table,       *)
(* insert_data_file) broken at their store accesses, and the as-of reads. *)
(*                                                                         *)
(* Every statement of a write operation is executed on the pool           *)
(* (`&self.pool`), never on the transaction `tx` the caller opened, so a  *)
(* statement is visible to every other connection as soon as it returns   *)
(* and the transaction's commit or rollback has nothing to apply or undo. *)
(***************************************************************************)
EXTENDS Integers, Sequences, FiniteSets, TLC

(* ------------------------------ bounds -------------------------------- *)

\* Operations started in one behaviour of a single caller.
MaxCommits == 3

\* Operations started in one behaviour of the specification with faults.
MaxFaultyCommits == 2

\* Operations started in one behaviour of the concurrent specification.
MaxConcurrentCommits == 2

\* Writers of the concurrent specification.
NumWriters == 2

\* Operations started in one behaviour of the specification with decoding
\* failures.
MaxDecodeFaultyCommits == 2

\* The operations one caller of the Lakehouse starts.
MaxLakehouseCommits == 4

\* The operations started by a user of the front ends that take names.
MaxFrontEndCommits == 3

\* The objects of a bucket, the objects of a page and the requests of one
\* call of list_files.
MaxObjects == 4
MaxPageSize == 2
MaxRequests == 4

\* The longest path passed to the path functions.
MaxPathLen == 2

\* The commits made in a store of either kind.
MaxBackendCommits == 1

\* The commits made while a reader reads the catalog.
MaxReadCommits == 1

\* The commits made while a reader holds a TimeTravel.
MaxTimeTravelCommits == 1

(* ------------------------------ values -------------------------------- *)

\* Option<T>: None is the empty tuple, Some(v) the one-element tuple.
None == <<>>
Some(v) == <<v>>
Unwrap(o) == o[1]
unwrap_or(o, d) == IF o = <<>> THEN d ELSE o[1]

Min2(a, b) == IF a <= b THEN a ELSE b

\* Statistics values travel as text: a string is the sequence of its
\* characters, a decimal digit being its own code.  TextLess is the
\* store's comparison of two text values (lexical, character by character).
TextLess(a, b) ==
    \E k \in 1..(Min2(Len(a), Len(b)) + 1) :
        /\ \A j \in 1..(k - 1) : a[j] = b[j]
        /\ \/ k > Len(a) /\ k <= Len(b)
           \/ k <= Len(a) /\ k <= Len(b) /\ a[k] < b[k]
TextLeq(a, b) == a = b \/ TextLess(a, b)
TextMin(a, b) == IF TextLess(b, a) THEN b ELSE a
TextMax(a, b) == IF TextLess(a, b) THEN b ELSE a

\* to_string of a non-negative integer: its decimal digits.
RECURSIVE to_string(_)
to_string(n) == IF n < 10 THEN <<n>> ELSE Append(to_string(n \div 10), n % 10)

Writers == 1..NumWriters

\* The kinds of store: one holding a boolean as the integer 0 or 1, one
\* holding it in a boolean type.
Backends == {"integer", "boolean"}

\* The caller of the single-caller specifications: the first writer.
Caller == CHOOSE w \in Writers : \A v \in Writers : w <= v

(* ------------------------------- state -------------------------------- *)

VARIABLES
    snapshots,          \* ducklake_snapshot rows, in insertion order
    changes,            \* ducklake_snapshot_changes rows
    schemas,            \* ducklake_schema rows
    tables,             \* ducklake_table rows
    columns,            \* ducklake_column rows
    data_files,         \* ducklake_data_file rows
    table_stats,        \* ducklake_table_stats rows (one per table_id)
    file_column_stats,  \* ducklake_file_column_statistics rows
    table_column_stats, \* ducklake_table_column_stats rows (one per table, column)
    pc,                 \* pc[w]: the store access writer w is about to make
    ctx,                \* ctx[w]: the locals of the operation writer w runs
    outcome,            \* outcome[w]: how w's last operation ended
    pre,                \* pre[w]: the store as it was when w's operation began
    started,            \* operations begun so far
    view,               \* the TimeTravel a reader holds, if any
    answer,             \* what the reader's last call returned
    backend,            \* how the store behind the pool holds a boolean
    cli,                \* the command the command-line front end runs
    storage,            \* the paths of the files completely written
    listing             \* the locals of a call of S3FileSystem::list_files

store_vars == <<snapshots, changes, schemas, tables, columns, data_files,
                table_stats, file_column_stats, table_column_stats>>
vars == <<snapshots, changes, schemas, tables, columns, data_files,
          table_stats, file_column_stats, table_column_stats,
          pc, ctx, outcome, pre, started, view, answer, backend, cli,
          storage, listing>>

\* The reader's variables, the kind of store, the command-line front end
\* and the file storage with its listing, which no step of a writer touches.
client_vars == <<view, answer, backend, cli, storage, listing>>

\* The store as one value.
Store == [snapshots |-> snapshots, changes |-> changes, schemas |-> schemas,
          tables |-> tables, columns |-> columns, data_files |-> data_files,
          table_stats |-> table_stats, file_column_stats |-> file_column_stats,
          table_column_stats |-> table_column_stats]

EmptyStore == [snapshots |-> <<>>, changes |-> <<>>, schemas |-> <<>>,
               tables |-> <<>>, columns |-> <<>>, data_files |-> <<>>,
               table_stats |-> <<>>, file_column_stats |-> <<>>,
               table_column_stats |-> <<>>]

Range(s) == {s[i] : i \in 1..Len(s)}

(* --------------------------- caller inputs ---------------------------- *)

SchemaNames == {"analytics", "staging"}
TableNames == {"events"}
FilePaths == {"f.parquet"}
\* The paths write_to_table generates, each with a fresh UUID, in the order
\* it generates them.
LakehousePaths == <<"analytics/events/u1/data_1.parquet",
                    "analytics/events/u2/data_1.parquet">>
\* The schema_id and table_id arguments a caller passes.
IdArgs == {1, 2}

\* ColumnDefinition (ducklake.rs 300-307).
ColumnDefinition(column_id, name, data_type, nullable) ==
    [column_id |-> column_id, name |-> name, data_type |-> data_type,
     nullable |-> nullable]

\* The column lists a caller passes to create_table: no column, two columns
\* without ids (the command line's form), and two columns with explicit ids
\* (the form of examples/comprehensive.rs).
ColumnLists ==
    { <<>>,
      << ColumnDefinition(None, "user_id", "INT64", FALSE),
         ColumnDefinition(None, "label", "STRING", TRUE) >>,
      << ColumnDefinition(Some(1), "user_id", "INT64", FALSE),
         ColumnDefinition(Some(2), "label", "STRING", TRUE) >> }

\* FileColumnStatistics (ducklake.rs 309-318); min and max are optional text.
FileColumnStatistics(column_id, value_count, null_count, nan_count, min_value, max_value) ==
    [column_id |-> column_id, value_count |-> value_count,
     null_count |-> null_count, nan_count |-> nan_count,
     min_value |-> min_value, max_value |-> max_value]

\* The files a caller registers, each a record count with a statistics
\* list: a file without statistics, the file of examples/comprehensive.rs
\* (5 records, user_id from 1001 to 1004), and a file whose values "9" and
\* "10" are ordered 9 < 10 as numbers and "10" < "9" as text.  The statistic
\* of column 2 has no min and no max, as the statistics of
\* write_parquet_file have.
Files ==
    { [record_count |-> 1, column_statistics |-> <<>>],
      [record_count |-> 5, column_statistics |->
          << FileColumnStatistics(1, 5, 0, 0, Some(to_string(1001)), Some(to_string(1004))) >>],
      [record_count |-> 1, column_statistics |->
          << FileColumnStatistics(1, 1, 1, 0, Some(to_string(9)), Some(to_string(10))),
             FileColumnStatistics(2, 2, 0, 1, None, None) >>] }

FileSizes == {7}

\* The values a reader prunes with, as the text it passes.
PruneProbes == {to_string(1002), to_string(9999)}

(* ------------------------- locals of a writer ------------------------- *)

IdleCtx ==
    [op |-> "none",
     \* SnapshotContext (ducklake.rs 321-326)
     snapshot_id |-> 0, schema_version |-> 0,
     next_catalog_id |-> 0, next_file_id |-> 0,
     \* arguments
     name |-> "", schema_id |-> 0, table_id |-> 0, columns |-> <<>>,
     record_count |-> 0, file_size_bytes |-> 0, column_statistics |-> <<>>,
     \* locals
     index |-> 0, row_id_start |-> 0, data_file_id |-> 0]

\* No call of list_files has been made.
NoListing ==
    [step |-> "idle", objects |-> 0, page_size |-> 1, files |-> <<>>,
     continuation_token |-> None, requests |-> <<>>, result |-> "none"]

\* No call of the reader has returned yet.
NoAnswer == [op |-> "none", arg |-> 0, result |-> <<>>]

\* No command of the command-line front end is running or has run.
NoCommand ==
    [command |-> "none", schema |-> "", table |-> "", columns |-> <<>>,
     step |-> "exit", connections |-> 0, column_defs |-> <<>>, result |-> <<>>]

NoOutcome == [kind |-> "none", op |-> "none", at |-> "none", id |-> 0]

(* ---------------------------- the SQL texts --------------------------- *)
(* The statements of queries/read/*.sql and queries/write/*.sql, which    *)
(* queries.rs includes, written from the data model and section 4 of the  *)
(* specification.                                                          *)

MaxOf(S) == CHOOSE m \in S : \A x \in S : x <= m

\* get_max_snapshot_id.sql: MAX(snapshot_id), NULL on an empty table.
sql_max_snapshot_id(snaps) ==
    IF snaps = <<>> THEN None
    ELSE Some(MaxOf({snaps[i].snapshot_id : i \in 1..Len(snaps)}))

\* The rows "ORDER BY snapshot_id DESC LIMIT 1" may return: any row that
\* carries the greatest snapshot_id.
sql_latest_snapshot(snaps) ==
    {r \in Range(snaps) : \A q \in Range(snaps) : q.snapshot_id <= r.snapshot_id}

\* The validity test of the as-of reads:
\* begin_snapshot <= S AND (end_snapshot IS NULL OR S < end_snapshot).
sql_valid_at(row, snapshot_id) ==
    /\ row.begin_snapshot <= snapshot_id
    /\ \/ row.end_snapshot = None
       \/ snapshot_id < Unwrap(row.end_snapshot)

\* update_table_stats.sql: the additive upsert of the table's roll-up row.
sql_update_table_stats(stats, table_id, record_count, file_size_bytes) ==
    IF \E i \in 1..Len(stats) : stats[i].table_id = table_id
    THEN [i \in 1..Len(stats) |->
            IF stats[i].table_id = table_id
            THEN [table_id |-> table_id,
                  record_count |-> stats[i].record_count + record_count,
                  next_row_id |-> stats[i].next_row_id + record_count,
                  file_size_bytes |-> stats[i].file_size_bytes + file_size_bytes]
            ELSE stats[i]]
    ELSE Append(stats, [table_id |-> table_id, record_count |-> record_count,
                        next_row_id |-> record_count,
                        file_size_bytes |-> file_size_bytes])

\* min(existing, new) and max(existing, new) over nullable text.
sql_text_min(a, b) ==
    IF a = None THEN b ELSE IF b = None THEN a
    ELSE Some(TextMin(Unwrap(a), Unwrap(b)))
sql_text_max(a, b) ==
    IF a = None THEN b ELSE IF b = None THEN a
    ELSE Some(TextMax(Unwrap(a), Unwrap(b)))

\* update_table_column_stats.sql: the merge into the table-level aggregate.
sql_update_table_column_stats(stats, table_id, column_id, null_count, nan_count, min_value, max_value) ==
    IF \E i \in 1..Len(stats) :
          stats[i].table_id = table_id /\ stats[i].column_id = column_id
    THEN [i \in 1..Len(stats) |->
            IF stats[i].table_id = table_id /\ stats[i].column_id = column_id
            THEN [table_id |-> table_id, column_id |-> column_id,
                  null_count |-> stats[i].null_count + null_count,
                  nan_count |-> stats[i].nan_count + nan_count,
                  min_value |-> sql_text_min(stats[i].min_value, min_value),
                  max_value |-> sql_text_max(stats[i].max_value, max_value)]
            ELSE stats[i]]
    ELSE Append(stats, [table_id |-> table_id, column_id |-> column_id,
                        null_count |-> null_count, nan_count |-> nan_count,
                        min_value |-> min_value, max_value |-> max_value])

(* ----------------------------- ReadQueries ---------------------------- *)

\* ReadQueries::get_max_snapshot_id: a NULL maximum reads as 0.
get_max_snapshot_id == unwrap_or(sql_max_snapshot_id(snapshots), 0)

\* ReadQueries::get_current_snapshot: None when there is no row.
get_current_snapshot ==
    IF snapshots = <<>> THEN {None}
    ELSE {Some(r.snapshot_id) : r \in sql_latest_snapshot(snapshots)}

\* ReadQueries::get_next_catalog_id: the results the query may give.
get_next_catalog_id ==
    IF snapshots = <<>> THEN {None}
    ELSE {Some(r.next_catalog_id) : r \in sql_latest_snapshot(snapshots)}

\* ReadQueries::get_next_file_id: the results the query may give.
get_next_file_id ==
    IF snapshots = <<>> THEN {None}
    ELSE {Some(r.next_file_id) : r \in sql_latest_snapshot(snapshots)}

\* ReadQueries::get_table_next_row_id.
get_table_next_row_id(table_id) ==
    IF \E r \in Range(table_stats) : r.table_id = table_id
    THEN Some((CHOOSE r \in Range(table_stats) : r.table_id = table_id).next_row_id)
    ELSE None

\* Result::unwrap_or_default() of a decoded integer: the value, or 0 when
\* the decoding failed.
unwrap_or_default_i64(decoded) == unwrap_or(decoded, 0)

\* Row::try_get::<i32, _>() of a column holding a bound boolean: the integer
\* where the store holds it as one, a decoding error (None) where the column
\* is of a boolean type.
try_get_i32(v) == IF backend = "integer" THEN Some(v) ELSE None

\* The records the reads return (built in queries.rs), each from one row.
SchemaInfo(r) == [schema_id |-> r.schema_id, schema_name |-> r.schema_name]
TableInfo(r) == [table_id |-> r.table_id, table_name |-> r.table_name]
\* A variant of ColumnInfo that reads nulls_allowed inverted.
ColumnInfo_Inverted(r) ==
    [column_id |-> r.column_id, column_name |-> r.column_name,
     column_type |-> r.column_type, nulls_allowed |-> (r.nulls_allowed = 0)]

ColumnInfo(r) ==
    [column_id |-> r.column_id, column_name |-> r.column_name,
     column_type |-> r.column_type,
     nulls_allowed |-> (unwrap_or_default_i64(try_get_i32(r.nulls_allowed)) # 0)]
DataFileInfo(r) ==
    [data_file_id |-> r.data_file_id, data_file_path |-> r.path,
     path_is_relative |-> (unwrap_or_default_i64(try_get_i32(r.path_is_relative)) # 0),
     record_count |-> r.record_count, file_size_bytes |-> r.file_size_bytes,
     delete_file_path |-> None]

MapSeq(s, F(_)) == [i \in 1..Len(s) |-> F(s[i])]

\* ReadQueries::list_schemas: binds snapshot_id.
list_schemas(snapshot_id) ==
    LET Test(r) == sql_valid_at(r, snapshot_id)
    IN  MapSeq(SelectSeq(schemas, Test), SchemaInfo)

\* ReadQueries::list_tables: binds schema_id, then snapshot_id.
list_tables(schema_id, snapshot_id) ==
    LET Test(r) == r.schema_id = schema_id /\ sql_valid_at(r, snapshot_id)
    IN  MapSeq(SelectSeq(tables, Test), TableInfo)

\* show_table_structure.sql returns the rows ordered by column_order.
sql_order_by_column_order(rows) ==
    SortSeq(rows, LAMBDA a, b : a.column_order < b.column_order)

\* ReadQueries::show_table_structure: binds table_id, then snapshot_id.
show_table_structure(table_id, snapshot_id) ==
    LET Test(r) == r.table_id = table_id /\ sql_valid_at(r, snapshot_id)
    IN  MapSeq(sql_order_by_column_order(SelectSeq(columns, Test)), ColumnInfo)

\* ReadQueries::list_data_files: binds table_id, then snapshot_id.
list_data_files(table_id, snapshot_id) ==
    LET Test(r) == r.table_id = table_id /\ sql_valid_at(r, snapshot_id)
    IN  MapSeq(SelectSeq(data_files, Test), DataFileInfo)

\* A variant of list_tables_at_snapshot that passes its arguments in the
\* other order.
list_tables_at_snapshot_Swapped(schema_id, snapshot_id) ==
    list_tables(snapshot_id, schema_id)

\* A variant of list_data_files_at_snapshot that reads at the newest
\* snapshot.
list_data_files_at_snapshot_Latest(table_id, snapshot_id) ==
    list_data_files(table_id, get_max_snapshot_id)

\* DuckLake::*_at_snapshot: the reads of the catalog as of a snapshot.
list_schemas_at_snapshot(snapshot_id) == list_schemas(snapshot_id)
list_tables_at_snapshot(schema_id, snapshot_id) == list_tables(schema_id, snapshot_id)
table_structure_at_snapshot(table_id, snapshot_id) ==
    show_table_structure(table_id, snapshot_id)
list_data_files_at_snapshot(table_id, snapshot_id) ==
    list_data_files(table_id, snapshot_id)

\* DuckLake::current_snapshot: the results the read may give.
current_snapshot == get_current_snapshot

\* A variant of DuckLake_list_tables that passes the snapshot id first.
DuckLake_list_tables_Swapped(schema_id) ==
    {list_tables_at_snapshot(unwrap_or(cur, 0), schema_id) : cur \in current_snapshot}

\* DuckLake::list_schemas, list_tables, table_structure and list_data_files:
\* the reads at the current snapshot, current_snapshot().unwrap_or(0); each
\* is the set of the results the two store accesses may give.
DuckLake_list_schemas ==
    {list_schemas_at_snapshot(unwrap_or(cur, 0)) : cur \in current_snapshot}
DuckLake_list_tables(schema_id) ==
    {list_tables_at_snapshot(schema_id, unwrap_or(cur, 0)) : cur \in current_snapshot}
DuckLake_table_structure(table_id) ==
    {table_structure_at_snapshot(table_id, unwrap_or(cur, 0)) : cur \in current_snapshot}
DuckLake_list_data_files(table_id) ==
    {list_data_files_at_snapshot(table_id, unwrap_or(cur, 0)) : cur \in current_snapshot}

\* prune_files_by_column_stats.sql, as the specification describes it: the
\* bounds and the probe are text and are compared as text; a statistic
\* without a min_value (max_value) has no lower (upper) bound.
sql_in_range(stat, value) ==
    /\ stat.min_value = None \/ TextLeq(Unwrap(stat.min_value), value)
    /\ stat.max_value = None \/ TextLeq(value, Unwrap(stat.max_value))

\* The ids of the active data files of the table whose statistic for the
\* column contains the value, and of those with no statistic for the column.
sql_prune_files_by_column_stats(files, stats, table_id, column_id, value) ==
    LET StatsOf(d) ==
            {r \in Range(stats) :
                r.data_file_id = d.data_file_id /\ r.column_id = column_id}
        Test(d) ==
            /\ d.table_id = table_id
            /\ d.end_snapshot = None
            /\ StatsOf(d) = {} \/ \E r \in StatsOf(d) : sql_in_range(r, value)
    IN  MapSeq(SelectSeq(files, Test), LAMBDA d : d.data_file_id)

\* A variant of ReadQueries::prune_files_by_column_stats that binds
\* column_id before table_id.
ReadQueries_prune_files_by_column_stats_Swapped(table_id, column_id, value) ==
    sql_prune_files_by_column_stats(data_files, file_column_stats,
                                    column_id, table_id, value)

\* ReadQueries::prune_files_by_column_stats: binds table_id, column_id, value.
ReadQueries_prune_files_by_column_stats(table_id, column_id, value) ==
    sql_prune_files_by_column_stats(data_files, file_column_stats,
                                    table_id, column_id, value)

\* A variant of DuckLake::prune_files_by_column_stats that passes the
\* column id where the table id belongs.
prune_files_by_column_stats_ColumnFirst(table_id, column_id, value) ==
    ReadQueries_prune_files_by_column_stats(column_id, table_id, value)

\* DuckLake::prune_files_by_column_stats.
prune_files_by_column_stats(table_id, column_id, value) ==
    ReadQueries_prune_files_by_column_stats(table_id, column_id, value)

(* ------------------------------- Init --------------------------------- *)

InitCatalog ==
    /\ snapshots = <<>>
    /\ changes = <<>>
    /\ schemas = <<>>
    /\ tables = <<>>
    /\ columns = <<>>
    /\ data_files = <<>>
    /\ table_stats = <<>>
    /\ file_column_stats = <<>>
    /\ table_column_stats = <<>>
    /\ pc = [w \in Writers |-> "idle"]
    /\ ctx = [w \in Writers |-> IdleCtx]
    /\ outcome = [w \in Writers |-> NoOutcome]
    /\ pre = [w \in Writers |-> EmptyStore]
    /\ started = 0
    /\ view = None
    /\ answer = NoAnswer
    /\ cli = NoCommand
    /\ storage = {}
    /\ listing = NoListing

\* The empty catalog in a store that holds booleans as the integers 0 and 1.
Init == InitCatalog /\ backend = "integer"

\* The empty catalog in a store of either kind.
InitAnyBackend == InitCatalog /\ backend \in Backends

(* ---------------------- the start of an operation --------------------- *)

\* What every operation does first: `self.pool.begin()`.
BeginOperation(w, c) ==
    /\ started' = started + 1
    /\ pc' = [pc EXCEPT ![w] = "get_max_snapshot_id"]
    /\ ctx' = [ctx EXCEPT ![w] = c]
    /\ outcome' = [outcome EXCEPT ![w] = NoOutcome]
    /\ pre' = [pre EXCEPT ![w] = Store]
    /\ UNCHANGED store_vars

Begin(w, c) ==
    /\ BeginOperation(w, c)
    /\ UNCHANGED client_vars

\* DuckLake::create_schema(schema_name), up to the transaction's begin.
create_schema(w, max) ==
    /\ pc[w] = "idle"
    /\ started < max
    /\ \E name \in SchemaNames :
          Begin(w, [IdleCtx EXCEPT !.op = "create_schema", !.name = name])

\* DuckLake::create_table(schema_id, table_name, columns), up to the begin.
create_table(w, max) ==
    /\ pc[w] = "idle"
    /\ started < max
    /\ \E schema_id \in IdArgs, name \in TableNames, cols \in ColumnLists :
          Begin(w, [IdleCtx EXCEPT !.op = "create_table", !.name = name,
                                 !.schema_id = schema_id, !.columns = cols])

\* DuckLake::insert_data_file(table_id, file_path, record_count,
\* file_size_bytes, column_statistics), up to the begin.
insert_data_file(w, max) ==
    /\ pc[w] = "idle"
    /\ started < max
    /\ \E table_id \in IdArgs, path \in FilePaths, file \in Files,
       size \in FileSizes :
          Begin(w, [IdleCtx EXCEPT !.op = "insert_data_file", !.name = path,
                                 !.table_id = table_id,
                                 !.record_count = file.record_count,
                                 !.file_size_bytes = size,
                                 !.column_statistics = file.column_statistics])

(* ------------------------ SnapshotContext::new ------------------------ *)

\* A variant of NewSnapshotId that forgets the increment.
NewSnapshotId_NoIncrement(max_snapshot_id) == max_snapshot_id

\* snapshot_id and schema_version computed from the maximum read.
NewSnapshotId(max_snapshot_id) == max_snapshot_id + 1
NewSchemaVersion(max_snapshot_id) == max_snapshot_id + 1

\* The first read of SnapshotContext::new.
ContextMaxSnapshotId(w) ==
    /\ pc[w] = "get_max_snapshot_id"
    /\ ctx' = [ctx EXCEPT ![w].snapshot_id = NewSnapshotId(get_max_snapshot_id),
                          ![w].schema_version = NewSchemaVersion(get_max_snapshot_id)]
    /\ pc' = [pc EXCEPT ![w] = "get_next_catalog_id"]
    /\ UNCHANGED <<store_vars, outcome, pre, started>>
    /\ UNCHANGED client_vars

\* The second read: the catalog watermark, 1 when there is no snapshot.
ContextNextCatalogId(w) ==
    /\ pc[w] = "get_next_catalog_id"
    /\ \E r \in get_next_catalog_id :
          ctx' = [ctx EXCEPT ![w].next_catalog_id = unwrap_or(r, 1)]
    /\ pc' = [pc EXCEPT ![w] = "get_next_file_id"]
    /\ UNCHANGED <<store_vars, outcome, pre, started>>
    /\ UNCHANGED client_vars

\* Where an operation continues once its SnapshotContext is built.
AfterContext(op) ==
    CASE op = "create_schema" -> "create_schema"
      [] op = "create_table" -> "create_table"
      [] op = "insert_data_file" -> "get_table_next_row_id"

\* The third read: the file watermark, 1 when there is no snapshot.
ContextNextFileId(w) ==
    /\ pc[w] = "get_next_file_id"
    /\ \E r \in get_next_file_id :
          ctx' = [ctx EXCEPT ![w].next_file_id = unwrap_or(r, 1)]
    /\ pc' = [pc EXCEPT ![w] = AfterContext(ctx[w].op)]
    /\ UNCHANGED <<store_vars, outcome, pre, started>>
    /\ UNCHANGED client_vars

(* ----------------------- DuckLake::create_schema_tx ------------------- *)

\* The id create_schema_tx gives the schema; the context is not advanced.
SchemaId(c) == c.next_catalog_id

\* The row WriteQueries::create_schema inserts.
SchemaRow(c) ==
    [schema_id |-> SchemaId(c),
     begin_snapshot |-> c.snapshot_id,
     end_snapshot |-> None,
     schema_name |-> c.name]

\* WriteQueries::create_schema, executed on the pool.
WriteCreateSchema(w) ==
    /\ pc[w] = "create_schema"
    /\ schemas' = Append(schemas, SchemaRow(ctx[w]))
    /\ ctx' = [ctx EXCEPT ![w].schema_id = SchemaId(ctx[w])]
    /\ pc' = [pc EXCEPT ![w] = "create_snapshot"]
    /\ UNCHANGED <<snapshots, changes, tables, columns, data_files, table_stats,
                   file_column_stats, table_column_stats, outcome, pre, started>>
    /\ UNCHANGED client_vars

(* ----------------------- DuckLake::create_table_tx -------------------- *)

\* table_id = next_catalog_id; next_catalog_id += 1.
TableId(c) == c.next_catalog_id
AfterTableId(c) == c.next_catalog_id + 1

\* The row WriteQueries::create_table inserts.
TableRow(c) ==
    [table_id |-> TableId(c),
     begin_snapshot |-> c.snapshot_id,
     end_snapshot |-> None,
     schema_id |-> c.schema_id,
     table_name |-> c.name]

\* WriteQueries::create_table, executed on the pool.
WriteCreateTable(w) ==
    /\ pc[w] = "create_table"
    /\ tables' = Append(tables, TableRow(ctx[w]))
    /\ ctx' = [ctx EXCEPT ![w].table_id = TableId(ctx[w]),
                          ![w].next_catalog_id = AfterTableId(ctx[w]),
                          ![w].index = 0]
    /\ pc' = [pc EXCEPT ![w] = IF ctx[w].columns = <<>> THEN "create_snapshot"
                                ELSE "create_column"]
    /\ UNCHANGED <<snapshots, changes, schemas, columns, data_files, table_stats,
                   file_column_stats, table_column_stats, outcome, pre, started>>
    /\ UNCHANGED client_vars

\* column.column_id.unwrap_or(index as i64 + 1), index counting from 0.
ColumnId(column, index) == unwrap_or(column.column_id, index + 1)

\* A boolean bound to a statement: stored as the integer 0 or 1, or as a
\* boolean where the store has a boolean type.
BindBool(b) == IF backend = "boolean" THEN b ELSE IF b THEN 1 ELSE 0

\* A variant of ColumnRow that tags the column with the current snapshot
\* instead of the snapshot being committed.
ColumnRow_CurrentSnapshot(c, column, index) ==
    [column_id |-> unwrap_or(column.column_id, index + 1),
     begin_snapshot |-> c.snapshot_id - 1,
     end_snapshot |-> None,
     table_id |-> c.table_id,
     column_order |-> index,
     column_name |-> column.name,
     column_type |-> column.data_type,
     nulls_allowed |-> IF column.nullable THEN 1 ELSE 0]

\* A variant of ColumnRow that counts column_order from 1.
ColumnRow_OrderFromOne(c, column, index) ==
    [column_id |-> unwrap_or(column.column_id, index + 1),
     begin_snapshot |-> c.snapshot_id,
     end_snapshot |-> None,
     table_id |-> c.table_id,
     column_order |-> index + 1,
     column_name |-> column.name,
     column_type |-> column.data_type,
     nulls_allowed |-> IF column.nullable THEN 1 ELSE 0]

\* The row WriteQueries::create_column inserts for the column at `index`.
ColumnRow(c, column, index) ==
    [column_id |-> ColumnId(column, index),
     begin_snapshot |-> c.snapshot_id,
     end_snapshot |-> None,
     table_id |-> c.table_id,
     column_order |-> index,
     column_name |-> column.name,
     column_type |-> column.data_type,
     nulls_allowed |-> BindBool(column.nullable)]

\* One turn of the column loop: WriteQueries::create_column on the pool.
WriteCreateColumn(w) ==
    /\ pc[w] = "create_column"
    /\ LET index == ctx[w].index
           column == ctx[w].columns[index + 1]
       IN  /\ columns' = Append(columns, ColumnRow(ctx[w], column, index))
           /\ ctx' = [ctx EXCEPT ![w].index = index + 1]
           /\ pc' = [pc EXCEPT ![w] = IF index + 1 = Len(ctx[w].columns)
                                       THEN "create_snapshot" ELSE "create_column"]
    /\ UNCHANGED <<snapshots, changes, schemas, tables, data_files, table_stats,
                   file_column_stats, table_column_stats, outcome, pre, started>>
    /\ UNCHANGED client_vars

(* --------------------- DuckLake::insert_data_file_tx ------------------ *)

\* Some(4096): the footer size recorded for every file.
DefaultFooterSize == 4096

\* A variant of AfterDataFileId that leaves the file watermark where it was.
AfterDataFileId_NoAdvance(c) == c.next_file_id

\* data_file_id = next_file_id; next_file_id += 1.
DataFileId(c) == c.next_file_id
AfterDataFileId(c) == c.next_file_id + 1

\* A variant of RowIdStart whose default for a table without roll-up is 1.
RowIdStart_DefaultOne(table_id) == unwrap_or(get_table_next_row_id(table_id), 1)

\* ReadQueries::get_table_next_row_id(...).unwrap_or(0)
RowIdStart(table_id) == unwrap_or(get_table_next_row_id(table_id), 0)

ReadTableNextRowId(w) ==
    /\ pc[w] = "get_table_next_row_id"
    /\ ctx' = [ctx EXCEPT ![w].data_file_id = DataFileId(ctx[w]),
                          ![w].next_file_id = AfterDataFileId(ctx[w]),
                          ![w].row_id_start = RowIdStart(ctx[w].table_id)]
    /\ pc' = [pc EXCEPT ![w] = "insert_data_file"]
    /\ UNCHANGED <<store_vars, outcome, pre, started>>
    /\ UNCHANGED client_vars

\* The row WriteQueries::insert_data_file inserts.
DataFileRow(c) ==
    [data_file_id |-> c.data_file_id,
     table_id |-> c.table_id,
     begin_snapshot |-> c.snapshot_id,
     end_snapshot |-> None,
     path |-> c.name,
     path_is_relative |-> BindBool(TRUE),
     file_format |-> "parquet",
     record_count |-> c.record_count,
     file_size_bytes |-> c.file_size_bytes,
     footer_size |-> Some(DefaultFooterSize),
     row_id_start |-> c.row_id_start]

\* WriteQueries::insert_data_file, executed on the pool.
WriteInsertDataFile(w) ==
    /\ pc[w] = "insert_data_file"
    /\ data_files' = Append(data_files, DataFileRow(ctx[w]))
    /\ pc' = [pc EXCEPT ![w] = "update_table_stats"]
    /\ UNCHANGED <<snapshots, changes, schemas, tables, columns, table_stats,
                   file_column_stats, table_column_stats, ctx, outcome, pre, started>>
    /\ UNCHANGED client_vars

\* A variant of update_table_stats that binds data_file_id where table_id
\* belongs.
update_table_stats_WrongId(stats, c) ==
    sql_update_table_stats(stats, c.data_file_id, c.record_count, c.file_size_bytes)

\* A variant of update_table_stats that passes the two amounts in the
\* other order.
update_table_stats_Swapped(stats, c) ==
    sql_update_table_stats(stats, c.table_id, c.file_size_bytes, c.record_count)

\* WriteQueries::update_table_stats(table_id, record_count, file_size_bytes).
update_table_stats(stats, c) ==
    sql_update_table_stats(stats, c.table_id, c.record_count, c.file_size_bytes)

WriteUpdateTableStats(w) ==
    /\ pc[w] = "update_table_stats"
    /\ table_stats' = update_table_stats(table_stats, ctx[w])
    /\ ctx' = [ctx EXCEPT ![w].index = 0]
    /\ pc' = [pc EXCEPT ![w] = IF ctx[w].column_statistics = <<>>
                                THEN "create_snapshot"
                                ELSE "insert_file_column_stats"]
    /\ UNCHANGED <<snapshots, changes, schemas, tables, columns, data_files,
                   file_column_stats, table_column_stats, outcome, pre, started>>
    /\ UNCHANGED client_vars

\* The file-level row of one statistic, as insert_file_column_stats binds it.
FileColumnStatsRow(c, stat) ==
    [data_file_id |-> c.data_file_id,
     table_id |-> c.table_id,
     column_id |-> stat.column_id,
     value_count |-> stat.value_count,
     null_count |-> stat.null_count,
     nan_count |-> stat.nan_count,
     min_value |-> stat.min_value,
     max_value |-> stat.max_value]

\* First half of a turn of the statistics loop.
WriteInsertFileColumnStats(w) ==
    /\ pc[w] = "insert_file_column_stats"
    /\ file_column_stats' = Append(file_column_stats,
          FileColumnStatsRow(ctx[w], ctx[w].column_statistics[ctx[w].index + 1]))
    /\ pc' = [pc EXCEPT ![w] = "update_table_column_stats"]
    /\ UNCHANGED <<snapshots, changes, schemas, tables, columns, data_files,
                   table_stats, table_column_stats, ctx, outcome, pre, started>>
    /\ UNCHANGED client_vars

\* WriteQueries::update_table_column_stats for one statistic.
update_table_column_stats(stats, c, stat) ==
    sql_update_table_column_stats(stats, c.table_id, stat.column_id,
        stat.null_count, stat.nan_count, stat.min_value, stat.max_value)

\* Second half of a turn of the statistics loop.
WriteUpdateTableColumnStats(w) ==
    /\ pc[w] = "update_table_column_stats"
    /\ table_column_stats' = update_table_column_stats(table_column_stats, ctx[w],
          ctx[w].column_statistics[ctx[w].index + 1])
    /\ ctx' = [ctx EXCEPT ![w].index = ctx[w].index + 1]
    /\ pc' = [pc EXCEPT ![w] = IF ctx[w].index + 1 = Len(ctx[w].column_statistics)
                                THEN "create_snapshot"
                                ELSE "insert_file_column_stats"]
    /\ UNCHANGED <<snapshots, changes, schemas, tables, columns, data_files,
                   table_stats, file_column_stats, outcome, pre, started>>
    /\ UNCHANGED client_vars

(* ----------------- SnapshotContext::commit_with_changes --------------- *)

\* The Snapshot row create_snapshot writes from the context.
SnapshotRow(c) ==
    [snapshot_id |-> c.snapshot_id,
     schema_version |-> c.schema_version,
     next_catalog_id |-> c.next_catalog_id,
     next_file_id |-> c.next_file_id]

\* WriteQueries::create_snapshot, executed on the pool.
WriteCreateSnapshot(w) ==
    /\ pc[w] = "create_snapshot"
    /\ snapshots' = Append(snapshots, SnapshotRow(ctx[w]))
    /\ pc' = [pc EXCEPT ![w] = "log_snapshot_changes"]
    /\ UNCHANGED <<changes, schemas, tables, columns, data_files, table_stats,
                   file_column_stats, table_column_stats, ctx, outcome, pre, started>>
    /\ UNCHANGED client_vars

\* format!("CREATE SCHEMA {}", ..), format!("CREATE TABLE {}", ..),
\* format!("INSERT DATA FILE {}", ..): the prefix and the name.
ChangeDescription(c) ==
    CASE c.op = "create_schema" -> <<"CREATE SCHEMA ", c.name>>
      [] c.op = "create_table" -> <<"CREATE TABLE ", c.name>>
      [] c.op = "insert_data_file" -> <<"INSERT DATA FILE ", c.name>>

\* WriteQueries::log_snapshot_changes, executed on the pool.
WriteLogSnapshotChanges(w) ==
    /\ pc[w] = "log_snapshot_changes"
    /\ changes' = Append(changes,
          [snapshot_id |-> ctx[w].snapshot_id,
           changes_made |-> ChangeDescription(ctx[w])])
    /\ pc' = [pc EXCEPT ![w] = "commit"]
    /\ UNCHANGED <<snapshots, schemas, tables, columns, data_files, table_stats,
                   file_column_stats, table_column_stats, ctx, outcome, pre, started>>
    /\ UNCHANGED client_vars

\* The id an operation returns: schema_id, table_id or data_file_id.
ResultId(c) ==
    CASE c.op = "create_schema" -> c.schema_id
      [] c.op = "create_table" -> c.table_id
      [] c.op = "insert_data_file" -> c.data_file_id

\* `tx.commit()`: no statement ran on the transaction, so the store is as it
\* was; the operation returns Ok.
TxCommit(w) ==
    /\ pc[w] = "commit"
    /\ outcome' = [outcome EXCEPT ![w] =
          [kind |-> "ok", op |-> ctx[w].op, at |-> "commit", id |-> ResultId(ctx[w])]]
    /\ pc' = [pc EXCEPT ![w] = "idle"]
    /\ ctx' = [ctx EXCEPT ![w] = IdleCtx]
    /\ UNCHANGED <<store_vars, pre, started>>
    /\ UNCHANGED client_vars

(* ------------------------ failure and abandonment --------------------- *)

\* The store access writer w is waiting on fails: `?` returns the error and
\* drops `tx`, whose rollback undoes the statements run on it: none.
StoreFault(w) ==
    /\ pc[w] # "idle"
    /\ outcome' = [outcome EXCEPT ![w] =
          [kind |-> "error", op |-> ctx[w].op, at |-> pc[w], id |-> 0]]
    /\ pc' = [pc EXCEPT ![w] = "idle"]
    /\ ctx' = [ctx EXCEPT ![w] = IdleCtx]
    /\ UNCHANGED <<store_vars, pre, started>>
    /\ UNCHANGED client_vars

\* The caller drops the pending operation at a suspension point; `tx` is
\* dropped with it and rolls back the statements run on it: none.
Abandon(w) ==
    /\ pc[w] # "idle"
    /\ outcome' = [outcome EXCEPT ![w] =
          [kind |-> "abandoned", op |-> ctx[w].op, at |-> pc[w], id |-> 0]]
    /\ pc' = [pc EXCEPT ![w] = "idle"]
    /\ ctx' = [ctx EXCEPT ![w] = IdleCtx]
    /\ UNCHANGED <<store_vars, pre, started>>
    /\ UNCHANGED client_vars

(* --------------------------- decoding failures ------------------------ *)

\* ReadQueries::get_max_snapshot_id when the decoding of a non-null maximum
\* fails: try_get returns Err and unwrap_or(0) yields 0; the operation goes
\* on with it.
ContextMaxSnapshotIdDecodeFails(w) ==
    /\ pc[w] = "get_max_snapshot_id"
    /\ snapshots # <<>>
    /\ ctx' = [ctx EXCEPT ![w].snapshot_id = NewSnapshotId(unwrap_or(None, 0)),
                          ![w].schema_version = NewSchemaVersion(unwrap_or(None, 0))]
    /\ pc' = [pc EXCEPT ![w] = "get_next_catalog_id"]
    /\ UNCHANGED <<store_vars, outcome, pre, started>>
    /\ UNCHANGED client_vars

\* ReadQueries::get_next_catalog_id when the row is there and the decoding
\* of its value fails: the read returns Some(0).
ContextNextCatalogIdDecodeFails(w) ==
    /\ pc[w] = "get_next_catalog_id"
    /\ snapshots # <<>>
    /\ ctx' = [ctx EXCEPT
                 ![w].next_catalog_id = unwrap_or(Some(unwrap_or_default_i64(None)), 1)]
    /\ pc' = [pc EXCEPT ![w] = "get_next_file_id"]
    /\ UNCHANGED <<store_vars, outcome, pre, started>>
    /\ UNCHANGED client_vars

\* ReadQueries::get_next_file_id when the row is there and the decoding of
\* its value fails: the read returns Some(0).
ContextNextFileIdDecodeFails(w) ==
    /\ pc[w] = "get_next_file_id"
    /\ snapshots # <<>>
    /\ ctx' = [ctx EXCEPT
                 ![w].next_file_id = unwrap_or(Some(unwrap_or_default_i64(None)), 1)]
    /\ pc' = [pc EXCEPT ![w] = AfterContext(ctx[w].op)]
    /\ UNCHANGED <<store_vars, outcome, pre, started>>
    /\ UNCHANGED client_vars

\* ReadQueries::get_table_next_row_id when the row is there and the decoding
\* of its value fails: the read returns Some(0).
ReadTableNextRowIdDecodeFails(w) ==
    /\ pc[w] = "get_table_next_row_id"
    /\ get_table_next_row_id(ctx[w].table_id) # None
    /\ ctx' = [ctx EXCEPT
                 ![w].data_file_id = DataFileId(ctx[w]),
                 ![w].next_file_id = AfterDataFileId(ctx[w]),
                 ![w].row_id_start = unwrap_or(Some(unwrap_or_default_i64(None)), 0)]
    /\ pc' = [pc EXCEPT ![w] = "insert_data_file"]
    /\ UNCHANGED <<store_vars, outcome, pre, started>>
    /\ UNCHANGED client_vars

\* The decoding of a value of a returned row fails in a read of w's
\* operation.
DecodeFails(w) ==
    \/ ContextMaxSnapshotIdDecodeFails(w)
    \/ ContextNextCatalogIdDecodeFails(w)
    \/ ContextNextFileIdDecodeFails(w)
    \/ ReadTableNextRowIdDecodeFails(w)

(* ------------------------------ TimeTravel ---------------------------- *)

\* The snapshot ids a reader binds a TimeTravel to: 0, the ids commits can
\* take, and one id beyond them.
ViewSnapshots == 0..(MaxTimeTravelCommits + 1)

\* TimeTravel::new: the view holds the bound snapshot_id (and a reference to
\* the catalog).
TimeTravel_new(snapshot_id) == [snapshot_id |-> snapshot_id]

\* DuckLake::at_snapshot.
at_snapshot(snapshot_id) == TimeTravel_new(snapshot_id)

\* A variant of TimeTravel_list_tables that reads at the greatest snapshot
\* instead of the bound one.
TimeTravel_list_tables_Latest(tt, schema_id) ==
    list_tables_at_snapshot(schema_id, get_max_snapshot_id)

\* TimeTravel::list_schemas, list_tables, table_structure, list_data_files.
TimeTravel_list_schemas(tt) == list_schemas_at_snapshot(tt.snapshot_id)
TimeTravel_list_tables(tt, schema_id) ==
    list_tables_at_snapshot(schema_id, tt.snapshot_id)
TimeTravel_table_structure(tt, table_id) ==
    table_structure_at_snapshot(table_id, tt.snapshot_id)
TimeTravel_list_data_files(tt, table_id) ==
    list_data_files_at_snapshot(table_id, tt.snapshot_id)

\* The reader's call returns: a read changes nothing but what the reader
\* holds.
Return(op, arg, result) ==
    /\ answer' = [op |-> op, arg |-> arg, result |-> result]
    /\ UNCHANGED <<store_vars, pc, ctx, outcome, pre, started, backend, cli, storage, listing>>

\* The reader calls at_snapshot and keeps the view.
ReaderAtSnapshot ==
    /\ \E snapshot_id \in ViewSnapshots : view' = Some(at_snapshot(snapshot_id))
    /\ UNCHANGED <<store_vars, pc, ctx, outcome, pre, started, answer, backend, cli, storage, listing>>

\* The reader calls a query of the view it holds.
ReaderViewListSchemas ==
    /\ view # None
    /\ Return("TimeTravel::list_schemas", 0, TimeTravel_list_schemas(Unwrap(view)))
    /\ UNCHANGED view

ReaderViewListTables ==
    /\ view # None
    /\ \E schema_id \in IdArgs :
          Return("TimeTravel::list_tables", schema_id,
                 TimeTravel_list_tables(Unwrap(view), schema_id))
    /\ UNCHANGED view

ReaderViewTableStructure ==
    /\ view # None
    /\ \E table_id \in IdArgs :
          Return("TimeTravel::table_structure", table_id,
                 TimeTravel_table_structure(Unwrap(view), table_id))
    /\ UNCHANGED view

ReaderViewListDataFiles ==
    /\ view # None
    /\ \E table_id \in IdArgs :
          Return("TimeTravel::list_data_files", table_id,
                 TimeTravel_list_data_files(Unwrap(view), table_id))
    /\ UNCHANGED view

(* ------------------------- current-snapshot reads --------------------- *)

\* The reader calls DuckLake::list_tables, table_structure, list_data_files
\* or prune_files_by_column_stats.
ReaderListTables ==
    /\ \E schema_id \in IdArgs : \E result \in DuckLake_list_tables(schema_id) :
          Return("list_tables", schema_id, result)
    /\ UNCHANGED view

ReaderTableStructure ==
    /\ \E table_id \in IdArgs : \E result \in DuckLake_table_structure(table_id) :
          Return("table_structure", table_id, result)
    /\ UNCHANGED view

ReaderListDataFiles ==
    /\ \E table_id \in IdArgs : \E result \in DuckLake_list_data_files(table_id) :
          Return("list_data_files", table_id, result)
    /\ UNCHANGED view

ReaderPruneFiles ==
    /\ \E table_id \in IdArgs, column_id \in IdArgs, value \in PruneProbes :
          Return("prune_files_by_column_stats", table_id,
                 prune_files_by_column_stats(table_id, column_id, value))
    /\ UNCHANGED view

(* ------------------------------ Lakehouse ----------------------------- *)

\* Result::Ok and Result::Err.
Ok(v) == [kind |-> "ok", value |-> v]
Err(e) == [kind |-> "error", error |-> e]

\* DuckPondError::ConfigError(format!(..)), the message as its pieces.
ConfigError(message) == [variant |-> "ConfigError", message |-> message]

\* Iterator::find: the first element passing the test, if any.
find(s, Test(_)) ==
    IF \E i \in 1..Len(s) : Test(s[i])
    THEN Some(s[CHOOSE i \in 1..Len(s) :
                    Test(s[i]) /\ \A j \in 1..(i - 1) : ~Test(s[j])])
    ELSE None

\* Option::map.
MapOption(o, F(_)) == IF o = None THEN None ELSE Some(F(Unwrap(o)))

\* Option::ok_or_else.
ok_or_else(o, e) == IF o = None THEN Err(e) ELSE Ok(Unwrap(o))

\* Lakehouse::get_schema_id: the id of the first schema of that name in
\* list_schemas, or the error "Schema '..' not found".
Lakehouse_get_schema_id(schema_name) ==
    { ok_or_else(
        MapOption(find(schemas_list, LAMBDA s : s.schema_name = schema_name),
                  LAMBDA s : s.schema_id),
        ConfigError(<<"Schema '", schema_name, "' not found">>))
      : schemas_list \in DuckLake_list_schemas }

\* Lakehouse::get_table_id: the schema as in get_schema_id, then the id of
\* the first table of that name in list_tables(schema_id).
Lakehouse_get_table_id(schema_name, table_name) ==
    UNION { IF schema_id.kind = "error" THEN {schema_id}
            ELSE { ok_or_else(
                     MapOption(find(tables_list, LAMBDA t : t.table_name = table_name),
                               LAMBDA t : t.table_id),
                     ConfigError(<<"Table '", table_name, "' not found in schema '",
                                   schema_name, "'">>))
                   : tables_list \in DuckLake_list_tables(schema_id.value) }
            : schema_id \in Lakehouse_get_schema_id(schema_name) }

\* The fields of the batches written to the table "events".
EventFields == <<"user_id", "label">>

\* The record batches a Parquet file holds: here two, naming their file.
BatchesOf(path) ==
    <<[file |-> path, batch |-> 1, schema |-> EventFields, num_rows |-> 1],
      [file |-> path, batch |-> 2, schema |-> EventFields, num_rows |-> 1]>>

\* ParquetManager::read_file: the batches of the file, or an error when the
\* file cannot be read.
read_file(path, unreadable) ==
    IF path \in unreadable THEN Err([variant |-> "ParquetError", message |-> path])
    ELSE Ok(BatchesOf(path))

\* A variant of the loop of read_from_table that returns the error of the
\* first file it cannot read.
RECURSIVE ReadFiles_FailFast(_, _, _)
ReadFiles_FailFast(files, unreadable, all_batches) ==
    IF files = <<>> THEN Ok(all_batches)
    ELSE LET batches == read_file(Head(files).data_file_path, unreadable)
         IN  IF batches.kind = "ok"
             THEN ReadFiles_FailFast(Tail(files), unreadable, all_batches \o batches.value)
             ELSE batches

\* The loop of read_from_table over the file list: the batches of a file
\* that reads are appended, a file that fails to read is skipped.
RECURSIVE ReadFiles(_, _, _)
ReadFiles(files, unreadable, all_batches) ==
    IF files = <<>> THEN Ok(all_batches)
    ELSE LET batches == read_file(Head(files).data_file_path, unreadable)
         IN  IF batches.kind = "ok"
             THEN ReadFiles(Tail(files), unreadable, all_batches \o batches.value)
             ELSE ReadFiles(Tail(files), unreadable, all_batches)

\* Lakehouse::read_from_table; the snapshot_id argument is not used.
Lakehouse_read_from_table(schema_name, table_name, unreadable) ==
    UNION { IF table_id.kind = "error" THEN {table_id}
            ELSE { IF files = <<>> THEN Ok(<<>>) ELSE ReadFiles(files, unreadable, <<>>)
                   : files \in DuckLake_list_data_files(table_id.value) }
            : table_id \in Lakehouse_get_table_id(schema_name, table_name) }

\* Lakehouse::list_tables: the names of the tables of the named schema.
Lakehouse_list_tables(schema_name) ==
    UNION { IF schema_id.kind = "error" THEN {schema_id}
            ELSE { Ok(MapSeq(tables_list, LAMBDA t : t.table_name))
                   : tables_list \in DuckLake_list_tables(schema_id.value) }
            : schema_id \in Lakehouse_get_schema_id(schema_name) }

\* Lakehouse::show_table_structure: the columns of the named table as
\* ColumnDefinitions.
Lakehouse_show_table_structure(schema_name, table_name) ==
    UNION { IF table_id.kind = "error" THEN {table_id}
            ELSE { Ok(MapSeq(cols, LAMBDA col :
                         ColumnDefinition(Some(col.column_id), col.column_name,
                                          col.column_type, col.nulls_allowed)))
                   : cols \in DuckLake_table_structure(table_id.value) }
            : table_id \in Lakehouse_get_table_id(schema_name, table_name) }

\* The column lists a caller of the Lakehouse passes: as the command-line
\* front ends build them, every column_id None.
LakehouseColumnLists ==
    {cols \in ColumnLists : \A column \in Range(cols) : column.column_id = None}

\* A RecordBatch, by its schema (the names of its fields) and its rows.
RecordBatch(schema, num_rows) == [schema |-> schema, num_rows |-> num_rows]

\* The data a caller writes: none, one batch, two batches of one schema,
\* and two batches of different schemas.
LakehouseData ==
    { <<>>,
      <<RecordBatch(EventFields, 5)>>,
      <<RecordBatch(EventFields, 2), RecordBatch(EventFields, 3)>>,
      <<RecordBatch(EventFields, 4), RecordBatch(<<"label">>, 1)>> }

\* ParquetError::SchemaMismatch and ParquetError::StorageError.
SchemaMismatch(message) == [variant |-> "SchemaMismatch", message |-> message]
StorageError(message) == [variant |-> "StorageError", message |-> message]

\* A variant of FileSystem::write_file that reports success and writes
\* nothing.
filesystem_write_file_Nothing(files, path) == files

\* FileSystem::write_file when it succeeds: the file is in the storage.
filesystem_write_file(files, path) == files \cup {path}

RECURSIVE TotalRecordCount(_)
\* total_record_count: the rows of the batches, added up.
TotalRecordCount(batches) ==
    IF batches = <<>> THEN 0
    ELSE Head(batches).num_rows + TotalRecordCount(Tail(batches))

\* column_id: col_index as i64, the index of the field counted from 0.
ParquetColumnId(col_index) == col_index

\* The column statistics write_parquet_file makes up, one for each field
\* of the schema when statistics are enabled: no nulls, no range.
ParquetColumnStats(schema, total_record_count, enable_statistics) ==
    IF enable_statistics
    THEN [k \in 1..Len(schema) |->
            [column_name |-> schema[k], column_id |-> ParquetColumnId(k - 1),
             value_count |-> total_record_count, null_count |-> 0, nan_count |-> 0,
             min_value |-> None, max_value |-> None]]
    ELSE <<>>

\* ParquetWriteConfig::default().enable_statistics
DefaultEnableStatistics == TRUE

\* write_parquet_file: the result and the storage after it. The data is
\* put together in memory and uploaded in one write; `size` is the length
\* of the buffer and `fails` tells whether the upload fails.
write_parquet_file(files, path, batches, enable_statistics, size, fails) ==
    IF batches = <<>>
    THEN [result |-> Err(SchemaMismatch("Cannot write empty batches")), files |-> files]
    ELSE IF \E i \in 1..Len(batches) : batches[i].schema # batches[1].schema
    THEN [result |-> Err(SchemaMismatch("All batches must have the same schema")),
          files |-> files]
    ELSE IF fails
    THEN [result |-> Err(StorageError(path)), files |-> files]
    ELSE [result |-> Ok([file_path |-> path,
                         file_size_bytes |-> size,
                         record_count |-> TotalRecordCount(batches),
                         column_stats |->
                            ParquetColumnStats(batches[1].schema, TotalRecordCount(batches),
                                               enable_statistics)]),
          files |-> filesystem_write_file(files, path)]

\* ParquetManager::write_file.
write_file(files, path, batches, enable_statistics, size, fails) ==
    write_parquet_file(files, path, batches, enable_statistics, size, fails)

\* The conversion of a ParquetColumnStats to the FileColumnStatistics of the
\* catalog in write_to_table.
CoreColumnStatistics(col_stat) ==
    FileColumnStatistics(col_stat.column_id, col_stat.value_count, col_stat.null_count,
                         col_stat.nan_count, col_stat.min_value, col_stat.max_value)

\* The Display of a ParquetError, as its pieces.
ParquetError_to_string(e) ==
    CASE e.variant = "SchemaMismatch" -> <<"Schema mismatch: ", e.message>>
      [] e.variant = "StorageError" -> <<"Storage error: ", e.message>>
      [] e.variant = "ParquetError" -> <<"Parquet error: ", e.message>>

\* map_err(|e| DuckPondError::ConfigError(e.to_string()))
map_err_ConfigError(result) ==
    IF result.kind = "error" THEN Err(ConfigError(ParquetError_to_string(result.error)))
    ELSE result

\* A call of the Lakehouse that starts a catalog operation. The user makes
\* one call or runs one command at a time and keeps the outcome of the last
\* one only: it has none of this call before the operation ends.
LakehouseBeginWith(c, files) ==
    /\ cli.step = "exit"
    /\ BeginOperation(Caller, c)
    /\ answer' = NoAnswer
    /\ cli' = NoCommand
    /\ storage' = files
    /\ UNCHANGED <<view, backend, listing>>

\* Such a call that writes no file.
LakehouseBegin(c) == LakehouseBeginWith(c, storage)

\* A call of the Lakehouse that returns without starting a catalog
\* operation. The Lakehouse is used by one caller, one call at a time.
LakehouseReturnWith(op, arg, result, files) ==
    /\ pc[Caller] = "idle"
    /\ cli.step = "exit"
    /\ answer' = [op |-> op, arg |-> arg, result |-> result]
    /\ cli' = NoCommand
    /\ storage' = files
    /\ UNCHANGED <<store_vars, pc, ctx, outcome, pre, started, view, backend, listing>>

\* Such a call that writes no file.
LakehouseReturn(op, arg, result) == LakehouseReturnWith(op, arg, result, storage)

\* Lakehouse::create_schema.
LakehouseCreateSchema(max) ==
    /\ pc[Caller] = "idle"
    /\ started < max
    /\ \E name \in SchemaNames :
          LakehouseBegin([IdleCtx EXCEPT !.op = "create_schema", !.name = name])

\* Lakehouse::create_table: the schema id is looked up by name, then
\* DuckLake::create_table runs; a failed lookup is returned.
LakehouseCreateTable(max) ==
    /\ pc[Caller] = "idle"
    /\ started < max
    /\ \E schema_name \in SchemaNames, name \in TableNames,
          cols \in LakehouseColumnLists :
          \E schema_id \in Lakehouse_get_schema_id(schema_name) :
             IF schema_id.kind = "error"
             THEN LakehouseReturn("Lakehouse::create_table", <<schema_name, name>>,
                                  schema_id)
             ELSE LakehouseBegin([IdleCtx EXCEPT !.op = "create_table", !.name = name,
                                                 !.schema_id = schema_id.value,
                                                 !.columns = cols])

\* The path made with Uuid::new_v4(): the first one no data file has yet
\* (none when all of LakehousePaths are used).
FreshPath ==
    LET unused == {i \in 1..Len(LakehousePaths) :
                      \A r \in Range(data_files) : r.path # LakehousePaths[i]}
    IN  {LakehousePaths[i] : i \in {k \in unused : \A j \in unused : k <= j}}

\* The rest of Lakehouse::write_to_table once the table id is known: the
\* data is written to the file, then the file is registered with
\* DuckLake::insert_data_file; a failed write is returned.
LakehouseWriteFile(schema_name, table_name, table_id, file_path, data, size, fails) ==
    \A written \in {write_file(storage, file_path, data, DefaultEnableStatistics,
                                 size, fails)} :
       IF written.result.kind = "error"
       THEN LakehouseReturnWith("Lakehouse::write_to_table", <<schema_name, table_name>>,
                                map_err_ConfigError(written.result), written.files)
       ELSE LakehouseBeginWith(
               [IdleCtx EXCEPT !.op = "insert_data_file", !.name = file_path,
                               !.table_id = table_id,
                               !.record_count = written.result.value.record_count,
                               !.file_size_bytes = written.result.value.file_size_bytes,
                               !.column_statistics =
                                  MapSeq(written.result.value.column_stats,
                                         CoreColumnStatistics)],
               written.files)

\* Lakehouse::write_to_table: empty data is rejected; the table id is
\* looked up by name, the data is written to a file of a fresh path and the
\* file is registered.
LakehouseWriteToTable(max) ==
    /\ pc[Caller] = "idle"
    /\ started < max
    /\ \E schema_name \in SchemaNames, table_name \in TableNames,
          data \in LakehouseData, file_path \in FreshPath, size \in FileSizes,
          fails \in BOOLEAN :
          IF data = <<>>
          THEN LakehouseReturn("Lakehouse::write_to_table", <<schema_name, table_name>>,
                               Err(ConfigError(<<"Cannot write empty data">>)))
          ELSE \E table_id \in Lakehouse_get_table_id(schema_name, table_name) :
                  IF table_id.kind = "error"
                  THEN LakehouseReturn("Lakehouse::write_to_table",
                                       <<schema_name, table_name>>, table_id)
                  ELSE LakehouseWriteFile(schema_name, table_name, table_id.value,
                                          file_path, data, size, fails)

\* The loop of merge_files over the input paths: the batches of every
\* file, or the error of the first file that cannot be read.
RECURSIVE MergeInputs(_, _, _)
MergeInputs(input_paths, unreadable, all_batches) ==
    IF input_paths = <<>> THEN Ok(all_batches)
    ELSE LET batches == read_file(Head(input_paths), unreadable)
         IN  IF batches.kind = "ok"
             THEN MergeInputs(Tail(input_paths), unreadable, all_batches \o batches.value)
             ELSE batches

\* ParquetManager::merge_files: the result and the storage after it.
merge_files(files, input_paths, output_path, enable_statistics, unreadable, size, fails) ==
    LET all_batches == MergeInputs(input_paths, unreadable, <<>>)
    IN  IF all_batches.kind = "error" THEN [result |-> all_batches, files |-> files]
        ELSE write_file(files, output_path, all_batches.value, enable_statistics,
                        size, fails)

\* The paths compact_table makes with Uuid::new_v4().
CompactedPaths == <<"analytics/events/compacted_u1.parquet">>

\* The output path of a compaction: the first of CompactedPaths that is
\* not in the storage yet (none when all are used).
FreshCompactedPath ==
    LET unused == {i \in 1..Len(CompactedPaths) : CompactedPaths[i] \notin storage}
    IN  {CompactedPaths[i] : i \in {k \in unused : \A j \in unused : k <= j}}

\* A variant of NothingToCompact that merges whatever the table has.
NothingToCompact_Never(files) == FALSE

\* files.len() <= 1: nothing to compact.
NothingToCompact(files) == Len(files) <= 1

\* Lakehouse::compact_table for a table whose data files are `files`: with
\* more than one file they are merged into a file of a fresh path; the
\* catalog is not updated.
LakehouseCompactFiles(schema_name, table_name, files, unreadable, size, fails) ==
    IF NothingToCompact(files)
    THEN LakehouseReturn("Lakehouse::compact_table", <<schema_name, table_name>>, Ok(<<>>))
    ELSE \E output_path \in FreshCompactedPath :
            \A merged \in {merge_files(storage,
                                        MapSeq(files, LAMBDA f : f.data_file_path),
                                        output_path, DefaultEnableStatistics,
                                        unreadable, size, fails)} :
               LakehouseReturnWith("Lakehouse::compact_table", <<schema_name, table_name>>,
                                   IF merged.result.kind = "error"
                                   THEN map_err_ConfigError(merged.result) ELSE Ok(<<>>),
                                   merged.files)

\* A call of Lakehouse::compact_table while the files in `unreadable`
\* cannot be read.
LakehouseCompactTable ==
    \E schema_name \in SchemaNames, table_name \in TableNames,
       unreadable \in SUBSET Range(LakehousePaths), size \in FileSizes,
       fails \in BOOLEAN :
       \E table_id \in Lakehouse_get_table_id(schema_name, table_name) :
          IF table_id.kind = "error"
          THEN LakehouseReturn("Lakehouse::compact_table", <<schema_name, table_name>>,
                               table_id)
          ELSE \E files \in DuckLake_list_data_files(table_id.value) :
                  LakehouseCompactFiles(schema_name, table_name, files, unreadable,
                                        size, fails)

\* A call of Lakehouse::read_from_table while the files in `unreadable`
\* cannot be read.
LakehouseReadFromTable ==
    \E schema_name \in SchemaNames, table_name \in TableNames,
       unreadable \in SUBSET Range(LakehousePaths) :
       \E result \in Lakehouse_read_from_table(schema_name, table_name, unreadable) :
          LakehouseReturn("Lakehouse::read_from_table",
                          <<schema_name, table_name, unreadable>>, result)

\* A call of Lakehouse::list_tables.
LakehouseListTables ==
    \E schema_name \in SchemaNames :
       \E result \in Lakehouse_list_tables(schema_name) :
          LakehouseReturn("Lakehouse::list_tables", <<schema_name>>, result)

\* A call of Lakehouse::show_table_structure.
LakehouseShowTableStructure ==
    \E schema_name \in SchemaNames, table_name \in TableNames :
       \E result \in Lakehouse_show_table_structure(schema_name, table_name) :
          LakehouseReturn("Lakehouse::show_table_structure",
                          <<schema_name, table_name>>, result)

(* ----------------------- command-line front end ---------------------- *)
(* The handlers of main() in duckpond-cli and ducklake-cli, which have    *)
(* the same statements; one command runs at a time.                       *)

\* A --columns payload: text that is no JSON, or a JSON array of objects
\* whose "name", "type" and "nullable" members may be missing.
NotJson == [valid_json |-> FALSE, entries |-> <<>>]
JsonArray(entries) == [valid_json |-> TRUE, entries |-> entries]
JsonObject(name, type, nullable) == [name |-> name, type |-> type, nullable |-> nullable]
ColumnPayloads ==
    { NotJson,
      JsonArray(<< JsonObject(Some("user_id"), Some("INT64"), Some(FALSE)),
                   JsonObject(Some("label"), None, None) >>),
      JsonArray(<< JsonObject(None, Some("INT64"), Some(FALSE)),
                   JsonObject(Some("label"), Some("STRING"), Some(TRUE)) >>) }

\* The commands a user runs.
CliCommands ==
    [command : {"create-schema"}, schema : SchemaNames, table : {""},
     columns : {<<>>}]
    \cup [command : {"create-table"}, schema : SchemaNames, table : TableNames,
          columns : ColumnPayloads]
    \cup [command : {"list-tables"}, schema : SchemaNames, table : {""},
          columns : {<<>>}]
    \cup [command : {"show-table"}, schema : SchemaNames, table : TableNames,
          columns : {<<>>}]

\* The Box<dyn Error> the `?` makes of a String: a message and no variant
\* of the error enum.
BoxedString(message) == [variant |-> "String", message |-> message]

\* serde_json::from_str::<Vec<serde_json::Value>>(&columns).
serde_json_from_str(payload) ==
    IF payload.valid_json THEN Ok(payload.entries)
    ELSE Err([variant |-> "serde_json::Error", message |-> <<>>])

\* The loop over the parsed entries: an entry without a string "name" is
\* skipped; "type" defaults to "string" and "nullable" to true.
cli_column_defs(entries) ==
    MapSeq(SelectSeq(entries, LAMBDA col : col.name # None),
           LAMBDA col : ColumnDefinition(None, Unwrap(col.name),
                                         unwrap_or(col.type, "string"),
                                         unwrap_or(col.nullable, TRUE)))

\* schemas.iter().find(|s| s.schema_name == schema).ok_or_else(..) over
\* core().list_schemas().
cli_find_schema(schema) ==
    { ok_or_else(find(schemas_list, LAMBDA s : s.schema_name = schema),
                 BoxedString(<<"Schema '", schema, "' not found">>))
      : schemas_list \in DuckLake_list_schemas }

\* tables.iter().find(|t| t.table_name == table).ok_or_else(..) over
\* core().list_tables(schema_id) of the schema found.
cli_find_table(schema, table) ==
    UNION { IF schema_info.kind = "error" THEN {schema_info}
            ELSE { ok_or_else(find(tables_list, LAMBDA t : t.table_name = table),
                              BoxedString(<<"Table '", table, "' not found in schema '",
                                            schema, "'">>))
                   : tables_list \in DuckLake_list_tables(schema_info.value.schema_id) }
            : schema_info \in cli_find_schema(schema) }

\* What Commands::ListTables prints, or the error it exits with.
cli_list_tables(schema) ==
    UNION { IF schema_info.kind = "error" THEN {schema_info}
            ELSE { Ok(MapSeq(tables_list, LAMBDA t : t.table_name))
                   : tables_list \in DuckLake_list_tables(schema_info.value.schema_id) }
            : schema_info \in cli_find_schema(schema) }

\* What Commands::ShowTable prints, or the error it exits with.
cli_show_table(schema, table) ==
    UNION { IF table_info.kind = "error" THEN {table_info}
            ELSE { Ok(MapSeq(structure, LAMBDA column :
                         <<column.column_name, column.column_type,
                           IF column.nulls_allowed THEN "NULL" ELSE "NOT NULL">>))
                   : structure \in DuckLake_table_structure(table_info.value.table_id) }
            : table_info \in cli_find_table(schema, table) }

\* A step of the command that touches the catalog through no write.
CliStep(next) ==
    /\ cli' = next
    /\ answer' = NoAnswer
    /\ UNCHANGED <<store_vars, pc, ctx, outcome, pre, started, view, backend, storage, listing>>

\* A step of the command that starts a catalog operation and awaits it.
CliBegin(c) ==
    /\ BeginOperation(Caller, c)
    /\ cli' = [cli EXCEPT !.step = "await"]
    /\ answer' = NoAnswer
    /\ UNCHANGED <<view, backend, storage, listing>>

\* The user runs a command; one that writes is run while commits remain.
CliStart(max) ==
    /\ cli.step = "exit"
    /\ pc[Caller] = "idle"
    /\ \E cmd \in CliCommands :
          /\ cmd.command \in {"create-schema", "create-table"} => started < max
          /\ CliStep([command |-> cmd.command, schema |-> cmd.schema,
                      table |-> cmd.table, columns |-> cmd.columns,
                      step |-> "connect", connections |-> 0,
                      column_defs |-> <<>>, result |-> <<>>])

\* Lakehouse::new(cli.database_url, storage_config): Database::new connects
\* the pool. It is the first statement of every handler.
CliConnect ==
    /\ cli.step = "connect"
    /\ CliStep([cli EXCEPT !.connections = @ + 1,
                           !.step = IF cli.command = "create-table" THEN "parse"
                                    ELSE "call"])

\* Commands::CreateTable: the payload is parsed and the column
\* definitions are built; a parse error ends the command.
CliParseColumns ==
    /\ cli.step = "parse"
    /\ LET column_defs == serde_json_from_str(cli.columns)
       IN  IF column_defs.kind = "error"
           THEN CliStep([cli EXCEPT !.step = "exit", !.result = column_defs])
           ELSE CliStep([cli EXCEPT !.step = "call",
                                    !.column_defs = cli_column_defs(column_defs.value)])

\* Commands::CreateSchema: core().create_schema(&name).
CliCreateSchema ==
    /\ cli.step = "call" /\ cli.command = "create-schema"
    /\ pc[Caller] = "idle"
    /\ CliBegin([IdleCtx EXCEPT !.op = "create_schema", !.name = cli.schema])

\* Commands::CreateTable after the parse: the schema is looked up by name;
\* when it is found core().create_table runs, else the command ends.
CliCreateTable ==
    /\ cli.step = "call" /\ cli.command = "create-table"
    /\ pc[Caller] = "idle"
    /\ \E schema_info \in cli_find_schema(cli.schema) :
          IF schema_info.kind = "error"
          THEN CliStep([cli EXCEPT !.step = "exit", !.result = schema_info])
          ELSE CliBegin([IdleCtx EXCEPT !.op = "create_table", !.name = cli.table,
                                        !.schema_id = schema_info.value.schema_id,
                                        !.columns = cli.column_defs])

\* Commands::ListTables.
CliListTables ==
    /\ cli.step = "call" /\ cli.command = "list-tables"
    /\ pc[Caller] = "idle"
    /\ \E result \in cli_list_tables(cli.schema) :
          CliStep([cli EXCEPT !.step = "exit", !.result = result])

\* Commands::ShowTable.
CliShowTable ==
    /\ cli.step = "call" /\ cli.command = "show-table"
    /\ pc[Caller] = "idle"
    /\ \E result \in cli_show_table(cli.schema, cli.table) :
          CliStep([cli EXCEPT !.step = "exit", !.result = result])

\* The catalog operation the command awaits has ended: the command prints
\* its success or exits with the error.
CliAwait ==
    /\ cli.step = "await"
    /\ pc[Caller] = "idle"
    /\ CliStep([cli EXCEPT !.step = "exit",
                           !.result = IF outcome[Caller].kind = "ok" THEN Ok(<<>>)
                                      ELSE Err([variant |-> "Database",
                                                message |-> <<>>])])

(* ------------------------------ PathUtils ----------------------------- *)
(* A path is the sequence of its characters.                              *)

\* The characters of the paths a caller passes: the separator, the colon
\* and an ordinary character.
PathChars == {"/", ":", "a"}

\* The paths of at most MaxPathLen characters.
Paths == UNION {[1..n -> PathChars] : n \in 0..MaxPathLen}

\* str::starts_with(char), str::ends_with(char), str::contains(char).
starts_with(path, ch) == path # <<>> /\ Head(path) = ch
ends_with(path, ch) == path # <<>> /\ path[Len(path)] = ch
contains(path, ch) == \E i \in 1..Len(path) : path[i] = ch

\* A variant of join_paths that puts a '/' after every base.
join_paths_AlwaysSeparator(base, path) ==
    IF starts_with(path, "/") THEN path ELSE base \o <<"/">> \o path

\* PathUtils::join_paths.
join_paths(base, path) ==
    IF starts_with(path, "/") THEN path
    ELSE IF ends_with(base, "/") THEN base \o path
    ELSE base \o <<"/">> \o path

\* A variant of is_absolute that knows the leading '/' only.
is_absolute_LeadingSlashOnly(path) == starts_with(path, "/")

\* PathUtils::is_absolute.
is_absolute(path) == starts_with(path, "/") \/ contains(path, ":")

\* PathUtils::to_absolute.
to_absolute(base, path) ==
    IF is_absolute(path) THEN path ELSE join_paths(base, path)

\* A call of PathUtils::join_paths.
CallJoinPaths ==
    /\ \E base \in Paths, path \in Paths :
          Return("PathUtils::join_paths", <<base, path>>, join_paths(base, path))
    /\ UNCHANGED view

\* A call of PathUtils::to_absolute.
CallToAbsolute ==
    /\ \E base \in Paths, path \in Paths :
          Return("PathUtils::to_absolute", <<base, path>>, to_absolute(base, path))
    /\ UNCHANGED view

(* ------------------------ S3FileSystem::list_files -------------------- *)
(* The bucket holds the objects of the prefix under the keys 1, 2, ..,     *)
(* which the service lists in pages; a continuation token is the key the   *)
(* next page starts with.                                                  *)

\* The smaller of two numbers.
Min(a, b) == IF a < b THEN a ELSE b

\* The answer of the service to a ListObjectsV2 request: the page that
\* starts at the token, or the first page for a request without a token.
\* A page with objects after it is marked truncated and names the token of
\* the next page, unless the service leaves the token out; a last page
\* says Some(false) or nothing about truncation.
ListObjectsV2(objects, page_size, token, omits_token, says_nothing) ==
    LET first == IF token = None THEN 1 ELSE Unwrap(token)
        last == Min(first + page_size - 1, objects)
    IN  [contents |-> [k \in 1..(last - first + 1) |-> [key |-> Some(first + k - 1)]],
         is_truncated |-> IF last < objects THEN Some(TRUE)
                          ELSE IF says_nothing THEN None ELSE Some(FALSE),
         next_continuation_token |->
             IF last < objects /\ ~omits_token THEN Some(last + 1) ELSE None]

\* The body of `for object in result.contents()`: the objects that have a
\* key are pushed to the files.
PushObjects(files, contents) ==
    files \o MapSeq(SelectSeq(contents, LAMBDA object : object.key # None),
                    LAMBDA object : [path |-> Unwrap(object.key)])

\* The call of list_files: no files yet and no continuation token.
ListFilesStart ==
    /\ listing.step \in {"idle", "done"}
    /\ \E objects \in 0..MaxObjects, page_size \in 1..MaxPageSize :
          listing' = [NoListing EXCEPT !.step = "request", !.objects = objects,
                                       !.page_size = page_size]
    /\ UNCHANGED <<store_vars, pc, ctx, outcome, pre, started, view, answer, backend,
                   cli, storage>>

\* One turn of the loop: the request carries the continuation token if
\* there is one, the objects of the response are pushed, and the loop goes
\* on with the token of the response if the response is truncated.
ListFilesRequest ==
    /\ listing.step = "request"
    /\ Len(listing.requests) < MaxRequests
    /\ \E omits_token \in BOOLEAN, says_nothing \in BOOLEAN :
          \A result \in {ListObjectsV2(listing.objects, listing.page_size,
                                        listing.continuation_token, omits_token,
                                        says_nothing)} :
             listing' =
                [listing EXCEPT
                   !.requests = Append(@, listing.continuation_token),
                   !.files = PushObjects(@, result.contents),
                   !.continuation_token =
                      IF result.is_truncated = Some(TRUE)
                      THEN result.next_continuation_token ELSE @,
                   !.step = IF result.is_truncated = Some(TRUE) THEN "request" ELSE "done",
                   !.result = IF result.is_truncated = Some(TRUE) THEN @ ELSE "ok"]
    /\ UNCHANGED <<store_vars, pc, ctx, outcome, pre, started, view, answer, backend,
                   cli, storage>>

\* A request that fails: the error is returned.
ListFilesRequestFails ==
    /\ listing.step = "request"
    /\ Len(listing.requests) < MaxRequests
    /\ listing' = [listing EXCEPT !.requests = Append(@, listing.continuation_token),
                                  !.step = "done", !.result = "error"]
    /\ UNCHANGED <<store_vars, pc, ctx, outcome, pre, started, view, answer, backend,
                   cli, storage>>

(* --------------------------- specifications --------------------------- *)

\* A caller starts an operation.
Start(w, max) ==
    \/ create_schema(w, max)
    \/ create_table(w, max)
    \/ insert_data_file(w, max)

\* One step of a running operation that no fault interrupts.
Run(w) ==
    \/ ContextMaxSnapshotId(w)
    \/ ContextNextCatalogId(w)
    \/ ContextNextFileId(w)
    \/ WriteCreateSchema(w)
    \/ WriteCreateTable(w)
    \/ WriteCreateColumn(w)
    \/ ReadTableNextRowId(w)
    \/ WriteInsertDataFile(w)
    \/ WriteUpdateTableStats(w)
    \/ WriteInsertFileColumnStats(w)
    \/ WriteUpdateTableColumnStats(w)
    \/ WriteCreateSnapshot(w)
    \/ WriteLogSnapshotChanges(w)
    \/ TxCommit(w)

\* A single caller running operations one after another, without faults.
Next ==
    \/ Start(Caller, MaxCommits)
    \/ Run(Caller)
Spec == Init /\ [][Next]_vars

\* Writers running operations concurrently, without faults.
NextConcurrent ==
    \E w \in Writers :
        \/ Start(w, MaxConcurrentCommits)
        \/ Run(w)
SpecConcurrent == Init /\ [][NextConcurrent]_vars

\* A single caller whose store accesses may fail and who may abandon an
\* operation at any suspension point.
NextFaulty ==
    \/ Start(Caller, MaxFaultyCommits)
    \/ Run(Caller)
    \/ StoreFault(Caller)
    \/ Abandon(Caller)
SpecFaulty == Init /\ [][NextFaulty]_vars

\* A caller committing operations one after another while a reader holds
\* a TimeTravel and queries it.
NextTimeTravel ==
    \/ Start(Caller, MaxTimeTravelCommits)
    \/ Run(Caller)
    \/ ReaderAtSnapshot
    \/ ReaderViewListSchemas
    \/ ReaderViewListTables
    \/ ReaderViewTableStructure
    \/ ReaderViewListDataFiles
SpecTimeTravel == Init /\ [][NextTimeTravel]_vars

\* A single caller whose store accesses may fail and whose reads may fail
\* to decode a value.
NextDecodeFaulty ==
    \/ Start(Caller, MaxDecodeFaultyCommits)
    \/ Run(Caller)
    \/ StoreFault(Caller)
    \/ DecodeFails(Caller)
SpecDecodeFaulty == Init /\ [][NextDecodeFaulty]_vars

\* A caller creating a table in a store of either kind while a reader asks
\* for table structures.
NextBackends ==
    \/ Start(Caller, MaxBackendCommits)
    \/ Run(Caller)
    \/ ReaderTableStructure
SpecBackends == InitAnyBackend /\ [][NextBackends]_vars

\* One caller of the Lakehouse creating, writing and reading tables, one
\* call after another.
NextLakehouse ==
    \/ LakehouseCreateSchema(MaxLakehouseCommits)
    \/ LakehouseCreateTable(MaxLakehouseCommits)
    \/ LakehouseWriteToTable(MaxLakehouseCommits)
    \/ Run(Caller)
    \/ LakehouseReadFromTable
    \/ LakehouseCompactTable
SpecLakehouse == Init /\ [][NextLakehouse]_vars

\* One user of the front ends that take names: the Lakehouse methods and
\* the commands of the command line, one after another.
NextFrontEnds ==
    \/ LakehouseCreateSchema(MaxFrontEndCommits)
    \/ LakehouseCreateTable(MaxFrontEndCommits)
    \/ LakehouseWriteToTable(MaxFrontEndCommits)
    \/ Run(Caller)
    \/ LakehouseListTables
    \/ LakehouseShowTableStructure
    \/ CliStart(MaxFrontEndCommits)
    \/ CliConnect
    \/ CliParseColumns
    \/ CliCreateSchema
    \/ CliCreateTable
    \/ CliListTables
    \/ CliShowTable
    \/ CliAwait
SpecFrontEnds == Init /\ [][NextFrontEnds]_vars

\* A caller of list_files and the service answering its requests.
NextS3 ==
    \/ ListFilesStart
    \/ ListFilesRequest
    \/ ListFilesRequestFails
SpecS3 == Init /\ [][NextS3]_vars

\* A caller of the path functions.
NextPaths ==
    \/ CallJoinPaths
    \/ CallToAbsolute
SpecPaths == Init /\ [][NextPaths]_vars

\* A caller committing operations one after another while a reader reads
\* the catalog at the current snapshot.
NextReads ==
    \/ Start(Caller, MaxReadCommits)
    \/ Run(Caller)
    \/ ReaderListTables
    \/ ReaderTableStructure
    \/ ReaderListDataFiles
    \/ ReaderPruneFiles
SpecReads == Init /\ [][NextReads]_vars

(* ======================= properties of the catalog ==================== *)

\* The caller is between operations and its last operation returned Ok.
Committed == pc[Caller] = "idle" /\ outcome[Caller].kind = "ok"

Last(s) == s[Len(s)]

PairwiseDistinct(s, Key(_)) ==
    \A i, j \in 1..Len(s) : i # j => Key(s[i]) # Key(s[j])

schema_id_of(r) == r.schema_id
table_id_of(r) == r.table_id
data_file_id_of(r) == r.data_file_id
snapshot_id_of(r) == r.snapshot_id

\* The descriptions of the commits made so far.
CommitKinds == {changes[i].changes_made[1] : i \in 1..Len(changes)}

(* ------------------------------- C1 ----------------------------------- *)
\* C1: commits made one after another on an empty catalog insert the
\* Snapshot rows 1, 2, .., N in commit order, and next_catalog_id and
\* next_file_id never decrease from one Snapshot row to the next.
C1_MonotonicSnapshots ==
    /\ \A i \in 1..Len(snapshots) : snapshots[i].snapshot_id = i
    /\ \A i \in 1..(Len(snapshots) - 1) :
          /\ snapshots[i].next_catalog_id <= snapshots[i + 1].next_catalog_id
          /\ snapshots[i].next_file_id <= snapshots[i + 1].next_file_id

\* Three commits, one of each kind, have been made.
C1_Witness ==
    /\ Committed
    /\ Len(snapshots) = 3
    /\ CommitKinds = {"CREATE SCHEMA ", "CREATE TABLE ", "INSERT DATA FILE "}

(* ------------------------------- C2 ----------------------------------- *)
\* C2: in a serialized sequence of commits no catalog id is reused: schema
\* ids are pairwise distinct, table ids are pairwise distinct, and no schema
\* shares its id with a table.
C2_NoCatalogIdReuse ==
    /\ PairwiseDistinct(schemas, schema_id_of)
    /\ PairwiseDistinct(tables, table_id_of)
    /\ \A i \in 1..Len(schemas), j \in 1..Len(tables) :
          schemas[i].schema_id # tables[j].table_id

(* ------------------------------- C3 ----------------------------------- *)
\* C3: after every successful commit the newest Snapshot row's
\* next_catalog_id exceeds every schema_id, table_id and column_id of the
\* catalog and its next_file_id exceeds every data_file_id.
C3_WatermarksUnused ==
    Committed =>
        /\ \A r \in Range(schemas) : r.schema_id < Last(snapshots).next_catalog_id
        /\ \A r \in Range(tables) : r.table_id < Last(snapshots).next_catalog_id
        /\ \A r \in Range(columns) : r.column_id < Last(snapshots).next_catalog_id
        /\ \A r \in Range(data_files) : r.data_file_id < Last(snapshots).next_file_id

(* ------------------------------- C4 ----------------------------------- *)
\* C4: with writers running concurrently, no two Snapshot rows share a
\* snapshot_id and no catalog or file id is given to two entities.
C4_NoCollisionUnderConcurrency ==
    /\ PairwiseDistinct(snapshots, snapshot_id_of)
    /\ PairwiseDistinct(data_files, data_file_id_of)
    /\ PairwiseDistinct(schemas, schema_id_of)
    /\ PairwiseDistinct(tables, table_id_of)
    /\ \A i \in 1..Len(schemas), j \in 1..Len(tables) :
          schemas[i].schema_id # tables[j].table_id

(* ------------------------------- C5 ----------------------------------- *)
\* C5: when insert_data_file fails at the insert of its Snapshot row, the
\* DataFile rows, the file-level and table-level statistics and the
\* TableStats roll-up are what they were before the call.
C5_FailedRegistrationLeavesNothing ==
    ( /\ pc[Caller] = "idle"
      /\ outcome[Caller].kind = "error"
      /\ outcome[Caller].op = "insert_data_file"
      /\ outcome[Caller].at = "create_snapshot" )
    => /\ data_files = pre[Caller].data_files
       /\ file_column_stats = pre[Caller].file_column_stats
       /\ table_column_stats = pre[Caller].table_column_stats
       /\ table_stats = pre[Caller].table_stats

(* ------------------------------- C6 ----------------------------------- *)
\* What a registration has made visible to the other connections of the pool.
FileRowVisible == data_files # pre[Caller].data_files
RollUpVisible == table_stats # pre[Caller].table_stats
FileStatsVisible ==
    Len(file_column_stats) =
        Len(pre[Caller].file_column_stats) + Len(ctx[Caller].column_statistics)
SnapshotVisible == snapshots # pre[Caller].snapshots

\* C6: at every point of a registration a reader sees either all of its
\* DataFile row, file-level statistics, roll-up update and Snapshot row, or
\* none of them.
C6_ReaderSeesAllOrNothing ==
    ctx[Caller].op = "insert_data_file" =>
        \/ /\ FileRowVisible /\ RollUpVisible /\ FileStatsVisible /\ SnapshotVisible
        \/ /\ ~FileRowVisible /\ ~RollUpVisible /\ ~SnapshotVisible
           /\ file_column_stats = pre[Caller].file_column_stats

(* ------------------------------- C7 ----------------------------------- *)
\* C7: a create_table that fails at any step, or that the caller abandons,
\* leaves no Table row, Column row, Snapshot row or change-log entry.
C7_CreateTableAllOrNothing ==
    ( /\ pc[Caller] = "idle"
      /\ outcome[Caller].kind \in {"error", "abandoned"}
      /\ outcome[Caller].op = "create_table" )
    => /\ tables = pre[Caller].tables
       /\ columns = pre[Caller].columns
       /\ snapshots = pre[Caller].snapshots
       /\ changes = pre[Caller].changes

(* ------------------------------- C8 ----------------------------------- *)
\* The validity interval of row E covers snapshot S.
Covers(E, S) ==
    /\ E.begin_snapshot <= S
    /\ (E.end_snapshot = None \/ S < Unwrap(E.end_snapshot))

\* The snapshot ids probed: none, every existing one, and one beyond.
ProbedSnapshots == 0..(Len(snapshots) + 1)

\* The ids probed: the ids callers pass and every id stored in a row.
ProbedSchemaIds == IdArgs \cup {tables[i].schema_id : i \in 1..Len(tables)}
ProbedTableIds ==
    IdArgs \cup {columns[i].table_id : i \in 1..Len(columns)}
           \cup {data_files[i].table_id : i \in 1..Len(data_files)}

SnapshotExists(id) == \E s \in Range(snapshots) : s.snapshot_id = id
ChangeLogged(id, kind, name) ==
    \E ch \in Range(changes) :
        ch.snapshot_id = id /\ ch.changes_made = <<kind, name>>

\* C9: once its commit has succeeded, every Schema, Table, Column and
\* DataFile row has a null end_snapshot and a begin_snapshot that is the
\* snapshot_id of the Snapshot row (and change-log entry) of the commit that
\* created it, and every column carries the begin_snapshot of its table.
C9_BeginSnapshotIsCommitSnapshot ==
    pc[Caller] = "idle" =>
        /\ \A r \in Range(schemas) :
              /\ r.end_snapshot = None
              /\ SnapshotExists(r.begin_snapshot)
              /\ ChangeLogged(r.begin_snapshot, "CREATE SCHEMA ", r.schema_name)
        /\ \A r \in Range(tables) :
              /\ r.end_snapshot = None
              /\ SnapshotExists(r.begin_snapshot)
              /\ ChangeLogged(r.begin_snapshot, "CREATE TABLE ", r.table_name)
        /\ \A r \in Range(columns) :
              /\ r.end_snapshot = None
              /\ SnapshotExists(r.begin_snapshot)
              /\ \E t \in Range(tables) :
                    t.table_id = r.table_id /\ t.begin_snapshot = r.begin_snapshot
              /\ \A t \in Range(tables) :
                    t.table_id = r.table_id => t.begin_snapshot = r.begin_snapshot
        /\ \A r \in Range(data_files) :
              /\ r.end_snapshot = None
              /\ SnapshotExists(r.begin_snapshot)
              /\ ChangeLogged(r.begin_snapshot, "INSERT DATA FILE ", r.path)

\* A schema, a table with its columns and a data file have been committed.
C9_Witness ==
    /\ Committed
    /\ schemas # <<>>
    /\ Len(columns) >= 2
    /\ data_files # <<>>

(* ------------------------------- C10 ---------------------------------- *)
RECURSIVE SumOver(_, _, _)
SumOver(s, F(_), n) == IF n = 0 THEN 0 ELSE F(s[n]) + SumOver(s, F, n - 1)
Sum(s, F(_)) == SumOver(s, F, Len(s))

\* The least and the greatest of the texts present among optional texts.
TextLeast(O) ==
    LET M == {Unwrap(o) : o \in {x \in O : x # None}}
    IN  IF M = {} THEN None ELSE Some(CHOOSE m \in M : \A x \in M : TextLeq(m, x))
TextGreatest(O) ==
    LET M == {Unwrap(o) : o \in {x \in O : x # None}}
    IN  IF M = {} THEN None ELSE Some(CHOOSE m \in M : \A x \in M : TextLeq(x, m))

FilesOf(t) == SelectSeq(data_files, LAMBDA d : d.table_id = t)
FileStatsOf(t, col) ==
    SelectSeq(file_column_stats, LAMBDA r : r.table_id = t /\ r.column_id = col)
StatColumns == {file_column_stats[i].column_id : i \in 1..Len(file_column_stats)}

RowIdRange(d) == d.row_id_start .. (d.row_id_start + d.record_count - 1)

\* C11: among the files registered one after another for one table, the
\* first has row_id_start 0, each later one has the sum of the record counts
\* of the files registered before it, and no two files cover a common row id.
C11_RowIdsNeverReused ==
    \A t \in ProbedTableIds :
        LET fs == FilesOf(t)
        IN  /\ fs # <<>> => fs[1].row_id_start = 0
            /\ \A k \in 1..Len(fs) :
                  fs[k].row_id_start =
                      Sum(SubSeq(fs, 1, k - 1), LAMBDA d : d.record_count)
            /\ \A i, j \in 1..Len(fs) :
                  i # j => RowIdRange(fs[i]) \cap RowIdRange(fs[j]) = {}

\* Three files with differing record counts have been registered for one
\* table.
C11_Witness ==
    /\ Committed
    /\ \E t \in ProbedTableIds :
          /\ Len(FilesOf(t)) = 3
          /\ FilesOf(t)[1].record_count # FilesOf(t)[2].record_count
          /\ FilesOf(t)[3].row_id_start > FilesOf(t)[2].row_id_start

(* ---------------------------- C12, C13 -------------------------------- *)
\* The number a decimal text stands for (str::parse::<i64>).
RECURSIVE parse(_)
parse(text) ==
    IF text = <<>> THEN 0
    ELSE 10 * parse(SubSeq(text, 1, Len(text) - 1)) + text[Len(text)]

\* The values probed, as numbers and as the text a caller passes.
ProbeValues == {9, 10, 1001, 1002, 9999}
ProbeTexts == {to_string(p) : p \in ProbeValues}
ProbedColumnIds == IdArgs \cup StatColumns

ActiveFilesOf(t) ==
    {d \in Range(data_files) : d.table_id = t /\ d.end_snapshot = None}
StatsOfFile(d, col) ==
    {r \in Range(file_column_stats) :
        r.data_file_id = d.data_file_id /\ r.column_id = col}
HasRange(r) == r.min_value # None /\ r.max_value # None

\* C12: prune_files_by_column_stats returns every active file of the table
\* that has no statistic for the column, and every one whose values for the
\* column, numbers recorded as their decimal text or texts, range over the
\* probe.
C12_PruningSound ==
    pc[Caller] = "idle" =>
        \A t \in ProbedTableIds, col \in ProbedColumnIds, p \in ProbeValues :
            LET result == Range(prune_files_by_column_stats(t, col, to_string(p)))
            IN  \A d \in ActiveFilesOf(t) :
                    /\ StatsOfFile(d, col) = {} => d.data_file_id \in result
                    /\ \A r \in StatsOfFile(d, col) :
                          /\ HasRange(r)
                          /\ \/ /\ parse(Unwrap(r.min_value)) <= p
                                /\ p <= parse(Unwrap(r.max_value))
                             \/ /\ TextLeq(Unwrap(r.min_value), to_string(p))
                                /\ TextLeq(to_string(p), Unwrap(r.max_value))
                          => d.data_file_id \in result

\* The ids of the active files of table t whose statistic for col has a
\* range that contains the text v in the order of text.
InRangeFileIds(t, col, v) ==
    {d.data_file_id : d \in
        {x \in ActiveFilesOf(t) :
            \E r \in StatsOfFile(x, col) :
                /\ HasRange(r)
                /\ TextLeq(Unwrap(r.min_value), v)
                /\ TextLeq(v, Unwrap(r.max_value))}}

\* The ids of the active files of table t with no recorded range for col:
\* no statistic, or a statistic without min_value and max_value.
NoRangeFileIds(t, col) ==
    {d.data_file_id : d \in
        {x \in ActiveFilesOf(t) :
            \A r \in StatsOfFile(x, col) :
                r.min_value = None /\ r.max_value = None}}

C14_Scenario ==
    /\ Committed
    /\ MapSeq(changes, LAMBDA ch : ch.changes_made) =
          << <<"CREATE SCHEMA ", "analytics">>, <<"CREATE TABLE ", "events">>,
             <<"INSERT DATA FILE ", "f.parquet">> >>
    /\ Len(snapshots) = 3 /\ Len(schemas) = 1 /\ Len(tables) = 1
    /\ tables[1].schema_id = schemas[1].schema_id
    /\ MapSeq(columns, LAMBDA c : c.column_name) = <<"user_id", "label">>
    /\ Len(data_files) = 1
    /\ data_files[1].table_id = tables[1].table_id
    /\ data_files[1].record_count = 5
    /\ Len(file_column_stats) = 1
    /\ file_column_stats[1].column_id = columns[1].column_id
    /\ file_column_stats[1].min_value = Some(to_string(1001))
    /\ file_column_stats[1].max_value = Some(to_string(1004))
    /\ file_column_stats[1].null_count = 0

\* C14: after the scenario, list_tables of the schema returns exactly the
\* table "events", table_structure returns user_id (not null) then label
\* (nullable), pruning the table on user_id with "1002" returns exactly the
\* file's id and with "9999" returns nothing.
C14_RoundTrip ==
    C14_Scenario =>
        /\ \A res \in DuckLake_list_schemas :
              MapSeq(res, LAMBDA i : i.schema_name) = <<"analytics">>
        /\ \A res \in DuckLake_list_tables(schemas[1].schema_id) :
              MapSeq(res, LAMBDA i : i.table_name) = <<"events">>
        /\ \A res \in DuckLake_table_structure(tables[1].table_id) :
              /\ MapSeq(res, LAMBDA i : <<i.column_name, i.column_type, i.nulls_allowed>>)
                    = << <<"user_id", "INT64", FALSE>>, <<"label", "STRING", TRUE>> >>
              /\ prune_files_by_column_stats(tables[1].table_id, res[1].column_id,
                                             to_string(1002))
                    = << data_files[1].data_file_id >>
              /\ prune_files_by_column_stats(tables[1].table_id, res[1].column_id,
                                             to_string(9999)) = <<>>
        /\ DuckLake_table_structure(tables[1].table_id) # {}

(* ---------------------------- C15, C16 -------------------------------- *)
\* The Column rows the running create_table has inserted so far, in the
\* order of its column list.
InsertedColumn(c, i) == columns[Len(columns) - c.index + i]

\* C15: create_table with table id T stores, for the i-th column of its
\* list (i = 1..n), the column_id the caller supplied or else T + i.
C15_ColumnIdsFollowTableId ==
    ctx[Caller].op = "create_table" /\ pc[Caller] # "create_table" =>
        \A i \in 1..ctx[Caller].index :
            LET column == ctx[Caller].columns[i]
            IN  InsertedColumn(ctx[Caller], i).column_id =
                    IF column.column_id = None
                    THEN ctx[Caller].table_id + i
                    ELSE Unwrap(column.column_id)

\* The active Column rows of a table.
ActiveColumnsOf(t) ==
    SelectSeq(columns, LAMBDA r : r.table_id = t /\ r.end_snapshot = None)

C17_DuplicateNamesDistinctIds ==
    Committed =>
        \A i, j \in 1..Len(schemas) :
            i < j /\ schemas[i].schema_name = schemas[j].schema_name =>
                /\ schemas[i].end_snapshot = None
                /\ schemas[j].end_snapshot = None
                /\ schemas[i].schema_id # schemas[j].schema_id
                /\ \A res \in DuckLake_list_schemas :
                      \E k, l \in 1..Len(res) :
                          /\ k # l
                          /\ res[k] = SchemaInfo(schemas[i])
                          /\ res[l] = SchemaInfo(schemas[j])

(* ------------------------------- C18 ---------------------------------- *)
\* A Table row of table_id t whose validity interval covers snapshot S.
TableExistsAt(t, S) ==
    \E r \in Range(tables) : r.table_id = t /\ Covers(r, S)

\* C18: once its registration has succeeded, every DataFile row names the
\* table_id of a Table row whose validity interval covers the file's
\* begin_snapshot, and every TableStats row and statistics row names the
\* table_id of a Table row.
C18_FilesReferenceTables ==
    Committed =>
        /\ \A d \in Range(data_files) : TableExistsAt(d.table_id, d.begin_snapshot)
        /\ \A r \in Range(table_stats) \cup Range(file_column_stats)
                      \cup Range(table_column_stats) :
              \E t \in Range(tables) : t.table_id = r.table_id

(* ------------------------------- C19 ---------------------------------- *)
\* Every row of s is still, unchanged and at its place, in the sequence t.
Kept(s, t) == Len(s) <= Len(t) /\ SubSeq(t, 1, Len(s)) = s

\* The rows of a roll-up that do not belong to table_id.
OfOtherTables(stats, table_id) ==
    SelectSeq(stats, LAMBDA r : r.table_id # table_id)

\* C19: no step of a write removes or changes a Snapshot, change-log,
\* Schema, Table, Column, DataFile or file-level statistics row; the only
\* rows changed in place are the TableStats row and the table-level
\* statistics rows of the table a file is being registered for, and the
\* roll-up rows of every other table stay as they are.
C19_AppendOnly ==
    [][ /\ Kept(snapshots, snapshots')
        /\ Kept(changes, changes')
        /\ Kept(schemas, schemas')
        /\ Kept(tables, tables')
        /\ Kept(columns, columns')
        /\ Kept(data_files, data_files')
        /\ Kept(file_column_stats, file_column_stats')
        /\ Len(table_stats) <= Len(table_stats')
        /\ Len(table_column_stats) <= Len(table_column_stats')
        /\ \/ /\ table_stats' = table_stats
              /\ table_column_stats' = table_column_stats
           \/ /\ ctx[Caller].op = "insert_data_file"
              /\ OfOtherTables(table_stats', ctx[Caller].table_id) =
                    OfOtherTables(table_stats, ctx[Caller].table_id)
              /\ OfOtherTables(table_column_stats', ctx[Caller].table_id) =
                    OfOtherTables(table_column_stats, ctx[Caller].table_id)
      ]_vars

\* A file is being registered for a table while another table has roll-up
\* rows, and the roll-up of the written table already holds an earlier file.
C19_Witness ==
    /\ pc[Caller] = "create_snapshot"
    /\ ctx[Caller].op = "insert_data_file"
    /\ \E r \in Range(table_stats) : r.table_id # ctx[Caller].table_id
    /\ \E r \in Range(table_column_stats) : r.table_id # ctx[Caller].table_id
    /\ Len(FilesOf(ctx[Caller].table_id)) = 2

(* ------------------------------- C20 ---------------------------------- *)
\* Some result of the read holds an entry that satisfies Is.
Returns(results, Is(_)) ==
    /\ results # {}
    /\ \A res \in results : \E k \in 1..Len(res) : Is(res[k])

\* C20: when an operation's commit succeeds, the current snapshot the next
\* reads resolve is that commit's snapshot_id, the greatest that exists, and
\* the schema, table or data file just created is in the result of the next
\* list_schemas, list_tables of its schema, or list_data_files of its table;
\* while no snapshot exists, the current-snapshot reads return empty results.
C20_CommitIsCurrent ==
    /\ [](snapshots = <<>> =>
            /\ current_snapshot = {None}
            /\ DuckLake_list_schemas = {<<>>}
            /\ \A sid \in ProbedSchemaIds : DuckLake_list_tables(sid) = {<<>>}
            /\ \A tid \in ProbedTableIds :
                  /\ DuckLake_table_structure(tid) = {<<>>}
                  /\ DuckLake_list_data_files(tid) = {<<>>})
    /\ [][ pc[Caller] = "commit" /\ outcome'[Caller].kind = "ok" =>
            \A c \in {ctx[Caller]}, id \in {outcome'[Caller].id} :
                /\ current_snapshot' = {Some(c.snapshot_id)}
                /\ \A s \in Range(snapshots') : s.snapshot_id <= c.snapshot_id
                /\ c.op = "create_schema" =>
                      Returns(DuckLake_list_schemas',
                              LAMBDA i : i = [schema_id |-> id, schema_name |-> c.name])
                /\ c.op = "create_table" =>
                      Returns(DuckLake_list_tables(c.schema_id)',
                              LAMBDA i : i = [table_id |-> id, table_name |-> c.name])
                /\ c.op = "insert_data_file" =>
                      Returns(DuckLake_list_data_files(c.table_id)',
                              LAMBDA i : /\ i.data_file_id = id
                                         /\ i.data_file_path = c.name
                                         /\ i.record_count = c.record_count)
      ]_vars

\* The second commit created a table in a schema other than 2, the third
\* has just registered a file, and the reads resolve snapshot 3.
C20_Witness ==
    /\ Committed
    /\ outcome[Caller].op = "insert_data_file"
    /\ current_snapshot = {Some(3)}
    /\ \E t \in Range(tables) : t.begin_snapshot = 2 /\ t.schema_id # 2
    /\ data_files # <<>>
    /\ Returns(DuckLake_list_data_files(Last(data_files).table_id),
               LAMBDA i : i.data_file_id = outcome[Caller].id)

(* ------------------------------- C21 ---------------------------------- *)
\* The number of rows of s with the given snapshot_id.
CountOf(s, id) == Len(SelectSeq(s, LAMBDA r : r.snapshot_id = id))

\* C21: an operation that returns Ok has added exactly one Snapshot row and
\* exactly one change-log entry with that snapshot_id and the description of
\* the operation; and whenever the caller is between operations, every
\* Snapshot row has its change-log entry and every entry its Snapshot row.
C21_SnapshotAndChangeLogPaired ==
    pc[Caller] = "idle" =>
        /\ outcome[Caller].kind = "ok" =>
              /\ Len(snapshots) = Len(pre[Caller].snapshots) + 1
              /\ Len(changes) = Len(pre[Caller].changes) + 1
              /\ Last(changes).snapshot_id = Last(snapshots).snapshot_id
              /\ Last(changes).changes_made[1] =
                    CASE outcome[Caller].op = "create_schema" -> "CREATE SCHEMA "
                      [] outcome[Caller].op = "create_table" -> "CREATE TABLE "
                      [] OTHER -> "INSERT DATA FILE "
        /\ \A s \in Range(snapshots) : CountOf(changes, s.snapshot_id) = 1
        /\ \A ch \in Range(changes) : CountOf(snapshots, ch.snapshot_id) = 1

(* ------------------------------- C22 ---------------------------------- *)
\* Every writer is between operations and none of them has failed.
AllSucceeded ==
    \A w \in Writers : pc[w] = "idle" /\ outcome[w].kind \in {"ok", "none"}

\* C22: after registrations of files that ran concurrently have all
\* succeeded, the TableStats row of each table holds the sums of the record
\* counts and sizes of its files, its next_row_id is the sum of the record
\* counts, and no two files of the table cover a common row id.
C22_NoLostRollUpUpdate ==
    AllSucceeded =>
        \A t \in ProbedTableIds :
            LET fs == FilesOf(t)
            IN  fs # <<>> =>
                  /\ \A r \in Range(table_stats) : r.table_id = t =>
                        /\ r.record_count = Sum(fs, LAMBDA d : d.record_count)
                        /\ r.file_size_bytes = Sum(fs, LAMBDA d : d.file_size_bytes)
                        /\ r.next_row_id = Sum(fs, LAMBDA d : d.record_count)
                  /\ \E r \in Range(table_stats) : r.table_id = t
                  /\ \A i, j \in 1..Len(fs) :
                        i # j => RowIdRange(fs[i]) \cap RowIdRange(fs[j]) = {}

(* ---------------------------- C23, C24 -------------------------------- *)
TimeTravelOps ==
    {"TimeTravel::list_schemas", "TimeTravel::list_tables",
     "TimeTravel::table_structure", "TimeTravel::list_data_files"}

\* The reader's step is the return of a query of its view.
ViewQueryReturns == answer' # answer /\ answer'.op \in TimeTravelOps

\* C23: a query of a TimeTravel whose bound snapshot id is the id of no
\* Snapshot row (an id beyond the greatest one included), made while no
\* operation is running, returns an empty result.
C23_UnknownSnapshotReadsEmpty ==
    [][ /\ ViewQueryReturns
        /\ pc[Caller] = "idle"
        /\ ~SnapshotExists(Unwrap(view).snapshot_id)
        => answer'.result = <<>> ]_vars

\* What the *_at_snapshot read of the catalog returns for the query.
AtSnapshotRead(op, arg, snapshot_id) ==
    CASE op = "TimeTravel::list_schemas" -> list_schemas_at_snapshot(snapshot_id)
      [] op = "TimeTravel::list_tables" -> list_tables_at_snapshot(arg, snapshot_id)
      [] op = "TimeTravel::table_structure" ->
            table_structure_at_snapshot(arg, snapshot_id)
      [] OTHER -> list_data_files_at_snapshot(arg, snapshot_id)

\* C24: at_snapshot changes nothing but the view the reader holds; a query
\* of the view returns what the *_at_snapshot read of the catalog returns
\* for the bound id and changes neither the store nor the view; and no step
\* of a writer changes the bound id.
C24_ViewIsReadOnly ==
    [][ /\ view' # view =>
              /\ UNCHANGED <<store_vars, pc, ctx, outcome, pre, started, answer, backend, cli, storage, listing>>
              /\ view' \in {Some(TimeTravel_new(S)) : S \in ViewSnapshots}
        /\ ViewQueryReturns =>
              /\ UNCHANGED <<store_vars, view>>
              /\ answer'.result =
                    AtSnapshotRead(answer'.op, answer'.arg, Unwrap(view).snapshot_id)
        /\ store_vars' # store_vars => view' = view
      ]_vars

\* The reader holds a view of snapshot 1 and its list of the tables of a
\* schema has returned the table the commit of snapshot 1 created.
C24_Witness ==
    /\ Committed
    /\ view = Some(TimeTravel_new(1))
    /\ answer.op = "TimeTravel::list_tables"
    /\ Len(answer.result) = 1
    /\ \E t \in Range(tables) : answer.result[1] = TableInfo(t)

(* ------------------------------- C25 ---------------------------------- *)
\* The reader's step is the return of a current-snapshot read with an id
\* that no Schema row (for list_tables) or Table row (for the others) has.
ReadOfUnknownId ==
    /\ answer' # answer
    /\ \/ /\ answer'.op = "list_tables"
          /\ \A r \in Range(schemas) : r.schema_id # answer'.arg
       \/ /\ answer'.op \in {"table_structure", "list_data_files",
                             "prune_files_by_column_stats"}
          /\ \A r \in Range(tables) : r.table_id # answer'.arg

\* C25: list_tables, table_structure, list_data_files and
\* prune_files_by_column_stats called, while no operation is running, with a
\* schema_id or table_id that does not exist return an empty result and
\* leave the store unchanged.
C25_UnknownIdReadsEmpty ==
    [][ ReadOfUnknownId /\ pc[Caller] = "idle" =>
            /\ answer'.result = <<>>
            /\ store_vars' = store_vars ]_vars

(* ------------------------------- C26 ---------------------------------- *)
\* C26: whenever a store access of an operation fails, or the decoding of a
\* value of a row it read fails, the operation ends there and returns an
\* error to its caller.
C26_ErrorsNeverSwallowed ==
    [][ StoreFault(Caller) \/ DecodeFails(Caller) =>
            /\ pc'[Caller] = "idle"
            /\ outcome'[Caller].kind = "error" ]_vars

(* ------------------------------- C27 ---------------------------------- *)
\* The nullable flag the column of that name is created with.
CreatedNullable(name) ==
    (CHOOSE column \in UNION {Range(l) : l \in ColumnLists} : column.name = name).nullable

\* C27: in a store of either kind, table_structure reports every column with
\* the nulls_allowed value it was created with.
C27_NullsAllowedRoundTrip ==
    answer.op = "table_structure" =>
        \A i \in Range(answer.result) : i.nulls_allowed = CreatedNullable(i.column_name)

(* ------------------------------- C28 ---------------------------------- *)
\* The concatenation of the batches of the files of the list, in order.
RECURSIVE BatchesInOrder(_)
BatchesInOrder(files) ==
    IF files = <<>> THEN <<>>
    ELSE BatchesOf(Head(files).data_file_path) \o BatchesInOrder(Tail(files))

\* C28: when the names resolve to a table, read_from_table returns success
\* whatever files cannot be read; its value is the batches of the readable
\* files of the table's file list, in the order of the list, and so the
\* empty list for a table without data files.
C28_ReadToleratesUnreadableFiles ==
    [][ answer' # answer /\ answer'.op = "Lakehouse::read_from_table" =>
          \A table_id \in Lakehouse_get_table_id(answer'.arg[1], answer'.arg[2]) :
             table_id.kind = "ok" =>
                \A files \in DuckLake_list_data_files(table_id.value) :
                   answer'.result =
                      Ok(BatchesInOrder(
                           SelectSeq(files,
                                     LAMBDA f : f.data_file_path \notin answer'.arg[3]))) ]_vars

\* A read of a table of two files has returned the batches of the second
\* file alone, the first being unreadable.
C28_Witness ==
    /\ Committed
    /\ Len(data_files) = 2
    /\ data_files[1].table_id = data_files[2].table_id
    /\ answer.op = "Lakehouse::read_from_table"
    /\ answer.arg[3] = {data_files[1].path}
    /\ answer.result = Ok(BatchesOf(data_files[2].path))

(* ------------------------------- C29 ---------------------------------- *)
\* C29: a create-table command whose column payload is malformed opens no
\* connection to the store and starts no catalog operation.
C29_MalformedPayloadRejectedFirst ==
    cli.command = "create-table" /\ ~cli.columns.valid_json =>
        /\ cli.connections = 0
        /\ pc[Caller] = "idle"

(* ------------------------------- C30 ---------------------------------- *)
\* A schema of that name is active at the current snapshot.
SchemaActive(schema) ==
    \E s \in Range(schemas) :
       s.schema_name = schema /\ sql_valid_at(s, get_max_snapshot_id)

\* A table of that name is active at the current snapshot in an active
\* schema of that name.
TableActive(schema, table) ==
    \E s \in Range(schemas), t \in Range(tables) :
       /\ s.schema_name = schema /\ sql_valid_at(s, get_max_snapshot_id)
       /\ t.schema_id = s.schema_id /\ t.table_name = table
       /\ sql_valid_at(t, get_max_snapshot_id)

\* The names a front-end call or command was given are absent.
NamesAbsent(op, schema, table) ==
    IF op \in {"Lakehouse::show_table_structure", "show-table"}
    THEN ~TableActive(schema, table)
    ELSE ~SchemaActive(schema)

\* The step returns the value of a Lakehouse method that takes names.
LakehouseNameCallReturns ==
    /\ answer' # answer
    /\ answer'.op \in {"Lakehouse::create_table", "Lakehouse::list_tables",
                       "Lakehouse::show_table_structure"}

\* The step ends a command at its catalog access.
CliCommandEnds == cli.step = "call" /\ cli'.step = "exit"

\* A step of a front end given an absent name fails and changes nothing in
\* the catalog, and a create_table operation a front end starts is for an
\* active schema.
FailsOnAbsentName ==
    /\ LakehouseNameCallReturns
         /\ NamesAbsent(answer'.op, answer'.arg[1],
                        IF Len(answer'.arg) > 1 THEN answer'.arg[2] ELSE "")
       => /\ answer'.result.kind = "error"
          /\ pc'[Caller] = "idle"
          /\ UNCHANGED store_vars
    /\ CliCommandEnds /\ NamesAbsent(cli.command, cli.schema, cli.table)
       => /\ cli'.result.kind = "error"
          /\ pc'[Caller] = "idle"
          /\ UNCHANGED store_vars
    /\ pc[Caller] = "idle" /\ pc'[Caller] # "idle" /\ ctx'[Caller].op = "create_table"
       => /\ \E s \in Range(schemas) :
                s.schema_id = ctx'[Caller].schema_id /\ sql_valid_at(s, get_max_snapshot_id)
          /\ cli.command = "create-table" /\ cli.step = "call" => SchemaActive(cli.schema)

\* The error of a step that fails on an absent name is of the not-found
\* class.
NotFoundErrors == {"SchemaNotFound", "TableNotFound"}
ErrorIsNotFound ==
    /\ LakehouseNameCallReturns /\ answer'.result.kind = "error"
       => answer'.result.error.variant \in NotFoundErrors
    /\ CliCommandEnds /\ cli'.result.kind = "error"
       => cli'.result.error.variant \in NotFoundErrors

\* What holds of the code: an absent name makes the call or command fail
\* with no row added, and never yields an empty result.
AbsentNameFailsCleanly == [][FailsOnAbsentName]_vars

\* C30: create-table and Lakehouse.create_table naming a schema that is not
\* active fail with a not-found error and add no row; list-tables and
\* show-table on an absent schema or table fail instead of returning an
\* empty result.
C30_AbsentNameIsNotFoundError == [][FailsOnAbsentName /\ ErrorIsNotFound]_vars

(* ---------------------------- C31, C32 -------------------------------- *)
\* The number of '/' characters of a path.
RECURSIVE Separators(_)
Separators(path) ==
    IF path = <<>> THEN 0
    ELSE (IF Head(path) = "/" THEN 1 ELSE 0) + Separators(Tail(path))

\* C31: join_paths returns a path that starts with '/' unchanged; otherwise
\* its result begins with base, ends with path, and has between them one
\* '/' when base does not end with '/' and nothing when it does.
C31_JoinPaths ==
    answer.op = "PathUtils::join_paths" =>
        \A base \in {answer.arg[1]}, path \in {answer.arg[2]}, joined \in {answer.result} :
           IF path # <<>> /\ path[1] = "/" THEN joined = path
           ELSE /\ SubSeq(joined, 1, Len(base)) = base
                /\ SubSeq(joined, Len(joined) - Len(path) + 1, Len(joined)) = path
                /\ Len(joined) - Len(base) - Len(path)
                      = (IF base # <<>> /\ base[Len(base)] = "/" THEN 0 ELSE 1)
                /\ Separators(joined) - Separators(base) - Separators(path)
                      = Len(joined) - Len(base) - Len(path)

\* join_paths has joined a base that ends with '/' and a relative path.
C31_Witness ==
    /\ answer.op = "PathUtils::join_paths"
    /\ answer.arg = << <<"a", "/">>, <<"a">> >>
    /\ answer.result = <<"a", "/", "a">>

\* The path starts with '/' or has a ':' in it.
Absolute(path) == (path # <<>> /\ path[1] = "/") \/ (\E i \in 1..Len(path) : path[i] = ":")

\* C32: to_absolute returns the path unchanged exactly when the path is
\* absolute and join_paths(base, path) otherwise; for an absolute base,
\* applying it to its own result changes nothing.
C32_ToAbsolute ==
    answer.op = "PathUtils::to_absolute" =>
        \A base \in {answer.arg[1]}, path \in {answer.arg[2]}, result \in {answer.result} :
           /\ (result = path) <=> Absolute(path)
           /\ ~Absolute(path) => result = join_paths(base, path)
           /\ Absolute(base) => to_absolute(base, result) = result

\* to_absolute has made a relative path absolute under an absolute base
\* that has a colon and no leading '/'.
C32_Witness ==
    /\ answer.op = "PathUtils::to_absolute"
    /\ answer.arg = << <<"a", ":">>, <<"a">> >>
    /\ answer.result = <<"a", ":", "/", "a">>

(* ------------------------------- C33 ---------------------------------- *)
\* The watermarks of the newest Snapshot row of a store; 1 and 1 when the
\* store has no snapshot.
WatermarksOf(store) ==
    IF store.snapshots = <<>> THEN [next_catalog_id |-> 1, next_file_id |-> 1]
    ELSE [next_catalog_id |-> store.snapshots[Len(store.snapshots)].next_catalog_id,
          next_file_id |-> store.snapshots[Len(store.snapshots)].next_file_id]

\* The catalog ids and the file ids the operation of a context consumes.
CatalogIdsConsumed(c) ==
    CASE c.op = "create_schema" -> 1
      [] c.op = "create_table" -> 1 + Len(c.columns)
      [] c.op = "insert_data_file" -> 0
FileIdsConsumed(c) == IF c.op = "insert_data_file" THEN 1 ELSE 0

\* The columns of the operation carry no column id of the caller's.
DefaultColumnIds(c) == \A i \in 1..Len(c.columns) : c.columns[i].column_id = None

\* C33: the Snapshot row of every successful commit records the previous
\* catalog watermark plus the catalog ids the operation consumed (1 for a
\* schema, 1 + the number of columns for a table with default column ids,
\* 0 for a data file) and the previous file watermark plus the file ids
\* consumed (1 for a data file, 0 otherwise); the watermarks before the
\* first commit are 1.
C33_WatermarkAccounting ==
    [][ (TxCommit(Caller) /\ DefaultColumnIds(ctx[Caller])) =>
          /\ WatermarksOf(Store).next_catalog_id
                = WatermarksOf(pre[Caller]).next_catalog_id + CatalogIdsConsumed(ctx[Caller])
          /\ WatermarksOf(Store).next_file_id
                = WatermarksOf(pre[Caller]).next_file_id + FileIdsConsumed(ctx[Caller]) ]_vars

(* ------------------------------- C34 ---------------------------------- *)
\* C34: in commits made one after another, the n-th registered data file has
\* data_file_id n, whatever schema and table commits lie between the
\* registrations, and the registration returns that id.
C34_FileIdsDense ==
    /\ \A i \in 1..Len(data_files) : data_files[i].data_file_id = i
    /\ (Committed /\ outcome[Caller].op = "insert_data_file") =>
          outcome[Caller].id = Len(data_files)

\* Two files have been registered with a schema commit between them.
C34_Witness ==
    /\ Committed
    /\ Len(data_files) = 2
    /\ Len(snapshots) = 3
    /\ changes[2].changes_made[1] = "CREATE SCHEMA "
    /\ outcome[Caller].id = 2

(* ------------------------------- C35 ---------------------------------- *)
\* What the four reads return as of a snapshot, for every id a caller
\* passes.
ReadsAt(snapshot_id) ==
    [schemas |-> list_schemas_at_snapshot(snapshot_id),
     tables |-> [id \in IdArgs |-> list_tables_at_snapshot(id, snapshot_id)],
     structure |-> [id \in IdArgs |-> table_structure_at_snapshot(id, snapshot_id)],
     files |-> [id \in IdArgs |-> list_data_files_at_snapshot(id, snapshot_id)]]

\* C35: what list_schemas, list_tables, table_structure and list_data_files
\* return as of a snapshot that is not newer than the current one is not
\* changed by any step of a later commit.
C35_HistoricalReadsStable ==
    [][\A snapshot_id \in 0..get_max_snapshot_id :
          ReadsAt(snapshot_id)' = ReadsAt(snapshot_id)]_vars

\* Three commits have been made, and the reads as of the first snapshot,
\* which return a schema, differ from the reads as of the third, which
\* return a data file.
C35_Witness ==
    /\ Committed
    /\ Len(snapshots) = 3
    /\ ReadsAt(1).schemas # <<>>
    /\ \E id \in IdArgs : ReadsAt(1).files[id] = <<>> /\ ReadsAt(3).files[id] # <<>>

(* ------------------------------- C36 ---------------------------------- *)
\* The data file is active, belongs to the table and has a file-level
\* statistic for the column that records neither a min_value nor a
\* max_value.
HasStatisticWithoutRange(d, table_id, column_id) ==
    /\ d.table_id = table_id
    /\ d.end_snapshot = None
    /\ \E r \in Range(file_column_stats) :
          /\ r.data_file_id = d.data_file_id
          /\ r.column_id = column_id
          /\ r.min_value = None
          /\ r.max_value = None

FieldIndexOf(i) ==
    Cardinality({j \in 1..(i - 1) :
                    file_column_stats[j].data_file_id = file_column_stats[i].data_file_id})

\* The catalog columns of the table at the position, by the name of the
\* field of the batches written.
CatalogColumnsAt(table_id, index) ==
    {c \in Range(columns) :
        /\ c.table_id = table_id
        /\ c.column_order = index
        /\ c.column_name = EventFields[index + 1]}

\* C37: every file-level statistic registered by write_to_table carries the
\* column_id of the catalog column of the table that has the name and the
\* position of the field the statistic was made for.
C37_StatisticsCarryCatalogIds ==
    \A i \in 1..Len(file_column_stats) :
       \A c \in CatalogColumnsAt(file_column_stats[i].table_id, FieldIndexOf(i)) :
          file_column_stats[i].column_id = c.column_id

(* ------------------------------- C38 ---------------------------------- *)
\* A call of write_to_table returns an error.
WriteToTableFails ==
    /\ answer' # answer
    /\ answer'.op = "Lakehouse::write_to_table"
    /\ answer'.result.kind = "error"

\* C38: write_to_table registers a file only after it is written: every
\* DataFile row, and every registration under way, names a path that is in
\* the storage; a call that fails (empty data, a name that does not resolve,
\* a file write that fails) writes no file and leaves the catalog as it was.
C38_RegisteredAfterWritten ==
    [][ /\ \A r \in Range(data_files') : r.path \in storage'
        /\ pc'[Caller] # "idle" /\ ctx'[Caller].op = "insert_data_file"
              => ctx'[Caller].name \in storage'
        /\ WriteToTableFails => UNCHANGED <<store_vars, storage>> ]_vars

\* A file is registered and written, and a later call of write_to_table
\* has failed at the write of its file.
C38_Witness ==
    /\ Len(data_files) = 1
    /\ \A r \in Range(data_files) : r.path \in storage
    /\ answer.op = "Lakehouse::write_to_table"
    /\ answer.result.kind = "error"
    /\ answer.result.error.message[1] = "Storage error: "

(* ------------------------------- C39 ---------------------------------- *)
\* The named table resolves to a table with more than one data file.
HasFilesToCompact(schema_name, table_name) ==
    \E table_id \in Lakehouse_get_table_id(schema_name, table_name) :
       /\ table_id.kind = "ok"
       /\ \E files \in DuckLake_list_data_files(table_id.value) : Len(files) > 1

\* C39: a call of compact_table changes no row of the catalog, so that
\* list_data_files returns what it returned before, and it writes no merged
\* file unless the table has more than one data file.
C39_CompactionLeavesCatalog ==
    [][ (answer'.op = "Lakehouse::compact_table" /\ LakehouseCompactTable) =>
          /\ UNCHANGED store_vars
          /\ \A table_id \in IdArgs :
                DuckLake_list_data_files(table_id)' = DuckLake_list_data_files(table_id)
          /\ storage' # storage => HasFilesToCompact(answer'.arg[1], answer'.arg[2]) ]_vars

\* A compaction has merged the two files of a table: the merged file is in
\* the storage and the catalog still lists the two files.
C39_Witness ==
    /\ answer.op = "Lakehouse::compact_table"
    /\ answer.result.kind = "ok"
    /\ CompactedPaths[1] \in storage
    /\ Len(data_files) = 2
    /\ \A r \in Range(data_files) : r.end_snapshot = None

(* ------------------------------- C40 ---------------------------------- *)
\* The paths of the files list_files has collected.
ListedPaths == {listing.files[i].path : i \in 1..Len(listing.files)}

\* C40: list_files asks for the first page once: every request after the
\* first carries a continuation token, also after a truncated response
\* that named none; the files it returns are the objects of the bucket,
\* each once.
C40_EachPageOnce ==
    /\ \A i \in 2..Len(listing.requests) : listing.requests[i] # None
    /\ \A i, j \in 1..Len(listing.files) :
          i # j => listing.files[i].path # listing.files[j].path
    /\ (listing.step = "done" /\ listing.result = "ok") =>
          ListedPaths = 1..listing.objects

\* What holds of the code when no truncated response leaves its token out:
\* a call that has returned lists every object once.
ListedOnceWithTokens ==
    ( /\ listing.step = "done" /\ listing.result = "ok"
      /\ \A i \in 2..Len(listing.requests) : listing.requests[i] # None )
    => /\ ListedPaths = 1..listing.objects
       /\ Len(listing.files) = listing.objects

====
